---- MODULE Spec2Model ----
(***************************************************************************)
(* Model of the real-time price feed of btop-crypto-pulse:                 *)
(*   WebSocketService  (services/websocketService.ts)  - the streaming     *)
(*       connection manager and the callback registry (fan-out hub);       *)
(*   useCryptoData     (hooks/useCryptoData.ts)        - the coordinator   *)
(*       that bootstraps over REST, subscribes, connects and health-checks;*)
(*   BinanceService    (services/binanceApi.ts)        - the useFallback   *)
(*       flag the coordinator consults.                                    *)
(* The browser's WebSocket and timer semantics are the environment: a      *)
(* failed connection delivers its error event and its close event (1006)   *)
(* in one task; close() on a CONNECTING socket fails the connection.       *)
(***************************************************************************)
EXTENDS Integers, Sequences, FiniteSets, TLC

\* ---------------------------------------------------------------- bounds
MaxSockets == 2      \* sockets that exist (not yet CLOSED) at the same time
MaxTimers == 3       \* reconnect timers that exist at the same time
MaxFetches == 1      \* bootstrap fetches in flight at the same time
MaxFailures == 6     \* the failure count saturates here
NumConsumers == 2    \* callbacks of consumers other than the coordinator
MaxEntries == 4      \* entries (emptied ones included) of the callback list during a fan-out
MaxItems == 2        \* elements of an array frame
MaxOps == 2          \* registry calls a callback makes during one invocation
MaxTickers == 2      \* tickers of a /ticker/24hr response
MaxCalls == 2        \* fetchInitialData calls in flight at the same time
MaxDepth == 3        \* nested calls of getTicker24hr / getCurrentPrice to itself
MaxKlines == 3       \* kline sockets BinanceDatafeed has created
MaxCount == 2        \* the limit / count argument of a candle generator
MaxHandles == 2      \* handles of one callback that are held at a time
MaxStamps == 2       \* distinct readings of the clock

\* ------------------------------------------------------ program constants
maxReconnectAttempts == 5
baseDelayMs == 1000
capDelayMs == 30000
NORMAL_CLOSURE == 1000
ABNORMAL_CLOSURE == 1006
GOING_AWAY == 1001

CRYPTO_SYMBOLS == <<"BTC", "ETH", "XRP", "ADA", "SOL", "DOT", "LINK", "LTC", "DOGE">>

\* the coordinator's callback in the registry
handlePriceUpdate == 1

VARIABLES
    \* ---- WebSocketService fields
    ws,                 \* 0 (null) or the slot in sock of the referenced socket
    reconnectTimer,     \* 0 (null) or the slot in timers of the held handle
    callbacks,          \* Set<PriceUpdateCallback>: its entry list, 0 = emptied entry
    isConnecting,
    reconnectAttempts,
    symbols,
    \* ---- environment: the sockets and timers that exist
    sock,               \* slot -> readyState; "NONE" = no socket (a CLOSED one is gone)
    aborted,            \* sockets whose connection the user agent must fail
    timers,             \* slot -> 1 = a pending timer, 0 = no timer,
                        \*         -1 = fired, its handle still in reconnectTimer
    \* ---- BinanceService
    useFallback,
    inflight,           \* bootstrap fetches awaiting [time |-> n, price |-> n]
    \* ---- useCryptoData effect
    mounted,
    setupTimer,
    wsTimer,
    statusTimer,
    unsubscribe,        \* the effect holds an unsubscribe handle
    isConnectedFlag,    \* React state isConnected
    cryptoData,         \* React state cryptoData: key -> record
    error,              \* React state error ("null" for null)
    lastUpdate,         \* React state lastUpdate: a clock reading, 0 for null
    isLoading,          \* React state isLoading
    calls,              \* fetchInitialData calls in flight: slot -> the request awaited
    \* ---- history variables of the bootstrap (not program state)
    newest,             \* slot of the most recently started call that is in flight, or 0
    newestDone,         \* the most recently started call has completed
    staleApplied,       \* a call started earlier completed after it and changed the state
    lastFetch,          \* what the call that completed in the last step saw and installed
    delivered,          \* the PriceUpdate handlePriceUpdate received in the last step
    \* ---- the message handler of the open socket, while it runs
    handling,           \* onmessage is running
    work,               \* ticker objects it still has to pass to handleTickerUpdate
    fanIdx,             \* callbacks.forEach: 0 = not running, else the next entry
    update,             \* the PriceUpdate being delivered
    running,            \* the callback forEach has invoked and that has not returned, or 0
    opsDone,            \* registry calls that callback has made so far
    \* ---- history variables of the hub (not program state)
    fanStart,           \* callbacks registered when the fan-out began
    fanRemoved,         \* callbacks deleted from the registry during the fan-out
    invoked,            \* callback -> number of invocations for this update
    threw,              \* callbacks that threw during the fan-out
    fanOver,            \* the fan-out of the last update has finished
    frameClass,         \* what kind of frame the handler received last
    frameEvents,        \* ticker events that frame carried
    updatesInFrame,     \* PriceUpdates produced from that frame
    frameCalls,         \* callback invocations caused by that frame
    lastHandle,         \* the callback whose unsubscribe handle the last step invoked, or 0
    handleAgain,        \* that handle was invoked when its callback was already removed
    handles,            \* callbacks for which subscribe() has returned a handle
    recvd,              \* the complete ticker events of the frame being handled, in its order
    got,                \* callback -> the updates delivered to it from that frame, in order
    \* ---- history variables (not program state)
    failures,           \* connection failures since the last open or disconnect()
    gaveUp,             \* scheduleReconnect() hit its attempt limit since then
    disconnected,       \* disconnect() ran and the caller has not connected since
    staleTimers,        \* timers pending when disconnect() ran, still pending
    lastDelays,         \* delays of the timers the last step scheduled, in order
    \* ---- a run of one of the candle generators
    genCall,            \* the generator called and its arguments, or NoCall
    genI,               \* the loop variable i
    currentPrice,       \* generateMockCandles' currentPrice
    candle,             \* the candle pushed last, or NoCandle
    prevTime,           \* the time of the candle pushed before it, or NoTime
    \* ---- a call a chart makes of BinanceService
    chartCall,          \* the call in progress, its recursion depth and its requests, or NoChart
    \* ---- BinanceDatafeed
    subscriptions,      \* Map subscriberUID -> symbol
    klineSockets,       \* slot -> the kline socket created there, or NoSocket
    barTo,              \* the subscriberUID whose callback the last step invoked, or 0
    \* ---- history variable of the registry (not program state)
    handlesOut          \* callback -> handles subscribe() returned for it, not yet invoked

connVars == <<ws, reconnectTimer, isConnecting, reconnectAttempts, symbols,
              sock, aborted, timers>>
dataVars == <<cryptoData, error, lastUpdate, isLoading, calls, newest, newestDone,
              staleApplied, lastFetch, delivered>>
effectVars == <<inflight, mounted, setupTimer, wsTimer, statusTimer, unsubscribe>>
coordVars == <<useFallback, inflight, mounted, setupTimer, wsTimer, statusTimer,
               unsubscribe, isConnectedFlag, dataVars>>
histVars == <<failures, gaveUp, disconnected, staleTimers, lastDelays>>
hubHist == <<fanStart, fanRemoved, invoked, threw, fanOver, frameClass, frameEvents,
             updatesInFrame, frameCalls, lastHandle, handleAgain, recvd, got>>
callVars == <<running, opsDone>>
hubRun == <<handling, work, fanIdx, update, callVars, hubHist>>
hubVars == <<callbacks, handles, hubRun>>
genVars == <<genCall, genI, currentPrice, candle, prevTime>>
chartVars == <<chartCall>>
feedVars == <<subscriptions, klineSockets, barTo>>
regVars == <<handlesOut>>
auxVars == <<genVars, chartVars, feedVars, regVars>>
vars == <<connVars, hubVars, coordVars, histVars, auxVars>>

Min(a, b) == IF a < b THEN a ELSE b

RECURSIVE Pow2(_)
Pow2(n) == IF n = 0 THEN 1 ELSE 2 * Pow2(n - 1)

SetMin(A) == CHOOSE x \in A : \A y \in A : x <= y

\* ----------------------------------------------------- WebSocketService
\* The service's fields, with the sockets and timers they refer to, as one
\* record, so that the handlers compose as they do inside one browser task.
\* `scheduled` lists the delays of the timers the task has created; `overflow`
\* says the task needed more sockets or timers than the bounds allow.
svc == [ws |-> ws, reconnectTimer |-> reconnectTimer, isConnecting |-> isConnecting,
        reconnectAttempts |-> reconnectAttempts, symbols |-> symbols,
        sock |-> sock, aborted |-> aborted, timers |-> timers, gaveUp |-> gaveUp,
        stale |-> staleTimers, scheduled |-> <<>>, overflow |-> FALSE]

\* Math.min(1000 * Math.pow(2, attempts), 30000)
ReconnectDelay(attempts) == Min(baseDelayMs * Pow2(attempts), capDelayMs)

\* setTimeout(body, delay): a new timer, whose handle replaces the one in
\* reconnectTimer (a fired timer nobody refers to any more is forgotten)
setTimeout(S, delay) ==
    LET tm == [t \in 1..MaxTimers |->
                 IF t = S.reconnectTimer /\ S.timers[t] = -1 THEN 0 ELSE S.timers[t]]
        free == {t \in 1..MaxTimers : tm[t] = 0}
    IN  IF free = {}
        THEN [S EXCEPT !.overflow = TRUE]
        ELSE [S EXCEPT !.timers = [tm EXCEPT ![SetMin(free)] = 1],
                       !.reconnectTimer = SetMin(free),
                       !.scheduled = Append(@, delay)]

scheduleReconnect(S) ==
    IF S.reconnectAttempts >= maxReconnectAttempts
    THEN [S EXCEPT !.gaveUp = TRUE]
    ELSE setTimeout([S EXCEPT !.reconnectAttempts = @ + 1],
                    ReconnectDelay(S.reconnectAttempts))

\* readyState === WebSocket.OPEN of the socket this.ws refers to
wsIsOpen(S) == S.ws # 0 /\ S.sock[S.ws] = "OPEN"

\* connect() returns early: already connecting or open
connectIsNoop(S) == S.isConnecting \/ wsIsOpen(S)

\* new WebSocket(url): a socket in readyState CONNECTING
newWebSocket(S) ==
    LET free == {s \in 1..MaxSockets : S.sock[s] = "NONE"}
    IN  IF free = {}
        THEN [S EXCEPT !.overflow = TRUE]
        ELSE [S EXCEPT !.sock[SetMin(free)] = "CONNECTING", !.ws = SetMin(free)]

\* (the constructor does not throw for the stream URL built from the
\* symbols, so the catch branch of connect() is never taken)
connect(S, syms) ==
    IF connectIsNoop(S)
    THEN S
    ELSE newWebSocket([S EXCEPT !.symbols = syms, !.isConnecting = TRUE])

onopen(S) == [S EXCEPT !.isConnecting = FALSE, !.reconnectAttempts = 0]

onclose(S, code) ==
    LET S1 == [S EXCEPT !.ws = 0, !.isConnecting = FALSE]
    IN  IF code # NORMAL_CLOSURE THEN scheduleReconnect(S1) ELSE S1

onerror(S) == scheduleReconnect(S)

\* WebSocket.close(): CONNECTING fails the connection, OPEN starts the closing
\* handshake, CLOSING and CLOSED do nothing
socketClose(S, s) ==
    IF S.sock[s] = "CONNECTING"
    THEN [S EXCEPT !.sock[s] = "CLOSING", !.aborted = @ \cup {s}]
    ELSE IF S.sock[s] = "OPEN"
    THEN [S EXCEPT !.sock[s] = "CLOSING"]
    ELSE S

clearTimeout(S, t) == [S EXCEPT !.timers[t] = 0]

disconnect(S) ==
    LET S1 == IF S.reconnectTimer # 0
              THEN [clearTimeout(S, S.reconnectTimer) EXCEPT !.reconnectTimer = 0]
              ELSE S
        S2 == IF S1.ws # 0
              THEN [socketClose(S1, S1.ws) EXCEPT !.ws = 0]
              ELSE S1
    IN  [S2 EXCEPT !.isConnecting = FALSE, !.reconnectAttempts = 0]

isConnected(S) == wsIsOpen(S)

PendingTimers == {t \in 1..MaxTimers : timers[t] > 0}
LiveSockets == {s \in 1..MaxSockets : sock[s] \in {"CONNECTING", "OPEN"}}
Sockets == {s \in 1..MaxSockets : sock[s] # "NONE"}

\* Slot numbers carry no meaning from one task to the next: the sockets and
\* the timers are kept in a canonical order (sorted by what is known of
\* them), and the references ws, reconnectTimer, aborted and stale follow.
sockKey(S, s) ==
    (CASE S.sock[s] = "NONE" -> 0
       [] S.sock[s] = "CONNECTING" -> 4
       [] S.sock[s] = "OPEN" -> 8
       [] S.sock[s] = "CLOSING" -> 12)
    + (IF s \in S.aborted THEN 2 ELSE 0) + (IF s = S.ws THEN 1 ELSE 0)

timerKey(S, t) ==
    (CASE S.timers[t] = 0 -> 0
       [] S.timers[t] = 1 -> 4
       [] S.timers[t] = -1 -> 8)
    + (IF t \in S.stale THEN 2 ELSE 0) + (IF t = S.reconnectTimer THEN 1 ELSE 0)

Canon(S) ==
    LET sk == SortSeq([s \in 1..MaxSockets |-> sockKey(S, s)], LAMBDA a, b : a > b)
        tk == SortSeq([t \in 1..MaxTimers |-> timerKey(S, t)], LAMBDA a, b : a > b)
        held(K) == {i \in DOMAIN K : K[i] % 2 = 1}
    IN  [S EXCEPT
           !.sock = [s \in 1..MaxSockets |->
                       CASE sk[s] \div 4 = 0 -> "NONE"
                         [] sk[s] \div 4 = 1 -> "CONNECTING"
                         [] sk[s] \div 4 = 2 -> "OPEN"
                         [] sk[s] \div 4 = 3 -> "CLOSING"],
           !.aborted = {s \in 1..MaxSockets : (sk[s] \div 2) % 2 = 1},
           !.ws = IF held(sk) = {} THEN 0 ELSE SetMin(held(sk)),
           !.timers = [t \in 1..MaxTimers |->
                       CASE tk[t] \div 4 = 0 -> 0
                         [] tk[t] \div 4 = 1 -> 1
                         [] tk[t] \div 4 = 2 -> -1],
           !.stale = {t \in 1..MaxTimers : (tk[t] \div 2) % 2 = 1},
           !.reconnectTimer = IF held(tk) = {} THEN 0 ELSE SetMin(held(tk))]

\* the next state of the service's fields is the record T, of a task that
\* stayed within the bounds
SetSvc(T) ==
    \E T0 \in {T} : \E C \in {Canon(T0)} :
           /\ ~T0.overflow
           /\ ws' = C.ws
           /\ reconnectTimer' = C.reconnectTimer
           /\ isConnecting' = C.isConnecting
           /\ reconnectAttempts' = C.reconnectAttempts
           /\ symbols' = C.symbols
           /\ sock' = C.sock
           /\ aborted' = C.aborted
           /\ timers' = C.timers
           /\ staleTimers' = C.stale
           /\ gaveUp' = C.gaveUp
           /\ lastDelays' = C.scheduled

\* socket s reaches CLOSED and is gone
closed(S, s) == [S EXCEPT !.sock[s] = "NONE", !.aborted = @ \ {s}]

\* ------------------------------------------------- environment: sockets
\* The handshake of socket s succeeds: readyState OPEN, onopen runs.
SocketOpen(s) ==
    /\ sock[s] = "CONNECTING"
    /\ SetSvc([onopen([svc EXCEPT !.sock[s] = "OPEN"]) EXCEPT !.gaveUp = FALSE])
    /\ failures' = 0
    /\ UNCHANGED <<hubVars, coordVars, disconnected>>
    /\ UNCHANGED auxVars

\* The connection of socket s fails (handshake refused, network lost): the
\* user agent sets readyState CLOSED and fires error, then close (1006), in
\* one task.
SocketFail(s) ==
    /\ sock[s] \in {"CONNECTING", "OPEN"}
    /\ \E S0 \in {closed(svc, s)} : \E S1 \in {onerror(S0)} :
           SetSvc(onclose(S1, ABNORMAL_CLOSURE))
    /\ failures' = Min(failures + 1, MaxFailures)
    /\ UNCHANGED <<hubVars, coordVars, disconnected>>
    /\ UNCHANGED auxVars

\* The server closes an open socket with a close frame carrying `code`:
\* only the close event fires.
SocketServerClose(s, code) ==
    /\ sock[s] = "OPEN"
    /\ \E S0 \in {closed(svc, s)} : SetSvc(onclose(S0, code))
    /\ failures' = IF code # NORMAL_CLOSURE THEN Min(failures + 1, MaxFailures) ELSE failures
    /\ UNCHANGED <<hubVars, coordVars, disconnected>>
    /\ UNCHANGED auxVars

\* A socket closed by close() reaches CLOSED.  Closed while CONNECTING, its
\* connection was failed: error, then close (1006).  Closed while OPEN, the
\* closing handshake either completes (1000) or is cut short (1006).
SocketCloseDone(s, code) ==
    /\ sock[s] = "CLOSING"
    /\ s \in aborted => code = ABNORMAL_CLOSURE
    /\ \E S0 \in {closed(svc, s)} : \E S1 \in {IF s \in aborted THEN onerror(S0) ELSE S0} :
           SetSvc(onclose(S1, code))
    /\ UNCHANGED <<hubVars, coordVars, failures, disconnected>>
    /\ UNCHANGED auxVars

\* the timer in slot t has fired
fired(S, t) == [S EXCEPT !.timers[t] = IF S.reconnectTimer = t THEN -1 ELSE 0,
                        !.stale = @ \ {t}]

\* A pending reconnect timer fires: its body calls connect(this.symbols).
TimerFire(t) ==
    /\ timers[t] > 0
    /\ \E S0 \in {fired(svc, t)} : SetSvc(connect(S0, symbols))
    /\ UNCHANGED <<hubVars, coordVars, failures, disconnected>>
    /\ UNCHANGED auxVars

\* --------------------------------------------------- the callback registry
\* Set.prototype.add: append unless present
setAdd_append(list, cb) == Append(list, cb)

setAdd(list, cb) ==
    IF \E i \in 1..Len(list) : list[i] = cb THEN list ELSE Append(list, cb)

\* (a removal by position, which takes the last entry when cb is not found)
setDelete_splice(list, cb) ==
    IF \E i \in 1..Len(list) : list[i] = cb
    THEN [i \in 1..Len(list) |-> IF list[i] = cb THEN 0 ELSE list[i]]
    ELSE [i \in 1..Len(list) |-> IF i = Len(list) THEN 0 ELSE list[i]]

\* Set.prototype.delete: the entry is emptied, the list keeps its length so
\* that a running forEach keeps its position
setDelete(list, cb) == [i \in 1..Len(list) |-> IF list[i] = cb THEN 0 ELSE list[i]]

\* the list without its emptied entries (what it denotes outside forEach)
RECURSIVE Compact(_)
Compact(list) ==
    IF list = <<>> THEN <<>>
    ELSE IF Head(list) = 0 THEN Compact(Tail(list))
    ELSE <<Head(list)>> \o Compact(Tail(list))

Registered == {callbacks[i] : i \in 1..Len(callbacks)} \ {0}

\* subscribe(callback), outside a fan-out
subscribe(list, cb) == setAdd(list, cb)

\* the handle returned by subscribe(callback): () => callbacks.delete(callback)
unsubscribeHandle(list, cb) == setDelete(list, cb)

\* ------------------------------------------------------ inbound frames
ABSENT == "ABSENT"
Callbacks == 1..(NumConsumers + 1)
Consumers == Callbacks \ {handlePriceUpdate}

\* A ticker object, by the fields the handler reads.  s: absent, a symbol
\* string, or a value that is not a string; c, P: absent, "" or a decimal.
Tickers == [present : {TRUE}, s : {ABSENT, "BTCUSDT", "ETHUSDT", "NONSTRING"},
            c : {ABSENT, "420.50"}, P : {ABSENT, "", "-1.25"}, e : {ABSENT, "24hrTicker"}]
NoData == [present |-> FALSE, s |-> ABSENT, c |-> ABSENT, P |-> ABSENT, e |-> ABSENT]
NoFields == [NoData EXCEPT !.present = TRUE]
Event(sym) == [present |-> TRUE, s |-> sym, c |-> "420.50", P |-> "-1.25", e |-> "24hrTicker"]
\* stands in the work list for an element whose access throws a TypeError
Throws == [NoData EXCEPT !.e = "TypeError"]

\* an element of an array frame: null, or an object with or without data
Items == {[null |-> TRUE, data |-> NoData], [null |-> FALSE, data |-> NoData],
          [null |-> FALSE, data |-> Event("BTCUSDT")], [null |-> FALSE, data |-> Event("ETHUSDT")],
          [null |-> FALSE, data |-> [Event("BTCUSDT") EXCEPT !.c = "421.75"]],
          [null |-> FALSE, data |-> [Event("BTCUSDT") EXCEPT !.e = ABSENT]],
          [null |-> FALSE, data |-> [Event("BTCUSDT") EXCEPT !.P = ABSENT]],
          [null |-> FALSE, data |-> [Event("BTCUSDT") EXCEPT !.s = "NONSTRING"]]}

Frame(kind, stream, data, top, items) ==
    [kind |-> kind, stream |-> stream, data |-> data, top |-> top, items |-> items]

\* text that is not JSON, and the JSON text null
BadFrames == {Frame("invalid", FALSE, NoData, NoFields, <<>>),
              Frame("null", FALSE, NoData, NoFields, <<>>)}
\* {stream, data} wrappers, with or without a ticker event's fields of their own
WrapperFrames == {Frame("object", TRUE, d, tp, <<>>) :
                     d \in Tickers, tp \in {NoFields, Event("ETHUSDT")}}
\* objects without stream or without data
PlainFrames == {Frame("object", st, NoData, tp, <<>>) : st \in BOOLEAN, tp \in Tickers}
               \cup {Frame("object", FALSE, NoFields, tp, <<>>) : tp \in Tickers}
ItemSeqs == UNION {[1..n -> Items] : n \in 0..MaxItems}
ArrayFrames == {Frame("array", FALSE, NoData, NoFields, its) : its \in ItemSeqs}
Frames == BadFrames \cup WrapperFrames \cup PlainFrames \cup ArrayFrames
\* the frames that carry one complete ticker event, wrapped or bare
EventFrames == {Frame("object", TRUE, Event(sym), NoFields, <<>>) : sym \in {"BTCUSDT", "ETHUSDT"}}
               \cup {Frame("object", FALSE, NoData, Event("BTCUSDT"), <<>>)}

truthy(v) == v \notin {ABSENT, ""}

\* !tickerData.s || !tickerData.c || !tickerData.P does not return
tickerComplete_noP(tk) == truthy(tk.s) /\ truthy(tk.c)
tickerComplete(tk) == truthy(tk.s) /\ truthy(tk.c) /\ truthy(tk.P)

\* data.forEach(item => ...): the ticker objects of an array frame, up to an
\* element whose access throws
RECURSIVE itemTickers_reversed(_)
itemTickers_reversed(its) ==
    IF its = <<>> THEN <<>>
    ELSE IF Head(its).null THEN <<Throws>>
    ELSE IF Head(its).data.present /\ Head(its).data.e = "24hrTicker"
         THEN itemTickers_reversed(Tail(its)) \o <<Head(its).data>>
         ELSE itemTickers_reversed(Tail(its))
RECURSIVE itemTickers(_)
itemTickers(its) ==
    IF its = <<>> THEN <<>>
    ELSE IF Head(its).null THEN <<Throws>>
    ELSE IF Head(its).data.present /\ Head(its).data.e = "24hrTicker"
         THEN <<Head(its).data>> \o itemTickers(Tail(its))
         ELSE itemTickers(Tail(its))

\* onmessage: the ticker objects the handler passes to handleTickerUpdate
tickersOf_noElse(frame) ==
    IF frame.kind = "object"
    THEN (IF frame.stream /\ frame.data.present THEN <<frame.data>> ELSE <<>>)
         \o (IF frame.top.e = "24hrTicker" THEN <<frame.top>> ELSE <<>>)
    ELSE IF frame.kind = "array" THEN itemTickers(frame.items) ELSE <<>>
tickersOf(frame) ==
    IF frame.kind \in {"invalid", "null"} THEN <<>>
    ELSE IF frame.kind = "object"
    THEN IF frame.stream /\ frame.data.present THEN <<frame.data>>
         ELSE IF frame.top.e = "24hrTicker" THEN <<frame.top>>
         ELSE <<>>
    ELSE itemTickers(frame.items)

\* tickerData.s.replace('USDT', '').toLowerCase()
symbolOf(s) == CASE s = "BTCUSDT" -> "btc" [] s = "ETHUSDT" -> "eth"
\* the number that stands for NaN
NaN == -999999999
\* parseFloat, in thousandths; NaN for what is not a decimal string
parseFloat(str) == CASE str = "420.50" -> 420500 [] str = "421.75" -> 421750
                     [] str = "-1.25" -> -1250
                     [] str = "430.00" -> 430000 [] str = "410.00" -> 410000
                     [] str = "1000.00" -> 1000000
                     [] OTHER -> NaN

NoUpdate == [symbol |-> "", price |-> 0, change24h |-> 0]
priceUpdate(tk) == [symbol |-> symbolOf(tk.s), price |-> parseFloat(tk.c),
                    change24h |-> parseFloat(tk.P)]

\* ticker events a frame carries
EventsIn(frame) == CASE frame.kind = "object" -> 1
                     [] frame.kind = "array" -> Len(frame.items)
                     [] OTHER -> 0

Lacks(tk) == tk.s = ABSENT \/ tk.c = ABSENT \/ tk.P = ABSENT

\* "invalid": not JSON (or null); "noshape": none of the recognised shapes;
\* "lacks": every ticker object it carries lacks a required field
classOf(frame) ==
    IF frame.kind \in {"invalid", "null"} THEN "invalid"
    ELSE IF frame.kind = "object"
    THEN IF frame.stream /\ frame.data.present
         THEN (IF Lacks(frame.data) THEN "lacks" ELSE "event")
         ELSE IF frame.top.e = "24hrTicker"
         THEN (IF Lacks(frame.top) THEN "lacks" ELSE "event")
         ELSE "noshape"
    ELSE IF \A i \in 1..Len(frame.items) :
               ~frame.items[i].null /\ ~(frame.items[i].data.present
                                         /\ frame.items[i].data.e = "24hrTicker")
    THEN "noshape"
    ELSE IF \A i \in 1..Len(frame.items) :
               ~frame.items[i].null /\ Lacks(frame.items[i].data)
    THEN "lacks"
    ELSE "array"

\* the complete ticker events a frame carries, as PriceUpdates, in the order
\* in which the frame carries them; the data of a {stream, data} wrapper
\* counts without the event type
hasFields(tk) ==
    tk.present /\ tk.s \in {"BTCUSDT", "ETHUSDT"} /\ truthy(tk.c) /\ truthy(tk.P)
isEvent(tk) == hasFields(tk) /\ tk.e = "24hrTicker"

RECURSIVE itemEvents(_)
itemEvents(its) ==
    IF its = <<>> THEN <<>>
    ELSE (IF ~Head(its).null /\ isEvent(Head(its).data)
          THEN <<priceUpdate(Head(its).data)>> ELSE <<>>) \o itemEvents(Tail(its))

eventsOf(frame) ==
    IF frame.kind = "array" THEN itemEvents(frame.items)
    ELSE IF frame.kind = "object"
    THEN (IF hasFields(frame.data) THEN <<priceUpdate(frame.data)>> ELSE <<>>)
         \o (IF isEvent(frame.top) THEN <<priceUpdate(frame.top)>> ELSE <<>>)
    ELSE <<>>

\* ------------------------------------------------- the candle generators
NoCall == [gen |-> "none"]
NoCandle == [time |-> <<0, 0>>, open |-> 0, high |-> 0, low |-> 0, close |-> 0, volume |-> -1]
NoTime == <<-1, -1>>
NoChart == [fn |-> "none"]
NoSocket == [uid |-> 0, symbol |-> "", open |-> FALSE]

\* no generator is running
AuxIdle ==
    /\ genCall = NoCall
    /\ genI = -1
    /\ currentPrice = 0
    /\ candle = NoCandle
    /\ prevTime = NoTime
    /\ chartCall = NoChart
    /\ subscriptions = [u \in {} |-> ""]
    /\ klineSockets = [s \in 1..MaxKlines |-> NoSocket]
    /\ barTo = 0
    /\ handlesOut = [cb \in 1..(NumConsumers + 1) |-> 0]

\* ------------------------------------------------------ the fan-out hub
\* the coordinator's records and bootstrap before the first fetch has ended
NoRecords == [k \in {} |-> 0]
NoFetch == [cause |-> "none", data |-> "none", found |-> {}]
DataIdle ==
    /\ cryptoData = NoRecords
    /\ error = "null"
    /\ lastUpdate = 0
    /\ isLoading = TRUE
    /\ calls = [c \in 1..MaxCalls |-> "none"]
    /\ newest = 0
    /\ newestDone = FALSE
    /\ staleApplied = FALSE
    /\ lastFetch = NoFetch
    /\ delivered = NoUpdate

Busy == handling

HubIdle ==
    /\ handling = FALSE
    /\ work = <<>>
    /\ fanIdx = 0
    /\ update = NoUpdate
    /\ running = 0
    /\ opsDone = 0
    /\ fanStart = {}
    /\ fanRemoved = {}
    /\ invoked = [cb \in Callbacks |-> 0]
    /\ threw = {}
    /\ fanOver = FALSE
    /\ frameClass = "none"
    /\ frameEvents = 0
    /\ updatesInFrame = 0
    /\ frameCalls = 0
    /\ lastHandle = 0
    /\ handleAgain = FALSE
    /\ recvd = <<>>
    /\ got = [cb \in Callbacks |-> <<>>]
    /\ handles = {}

\* a consumer calls subscribe(cb)
SubscribeCall(cb) ==
    /\ ~Busy
    /\ callbacks' = subscribe(callbacks, cb)
    /\ handles' = handles \cup {cb}
    /\ lastHandle' = 0
    /\ handleAgain' = FALSE
    /\ UNCHANGED <<connVars, coordVars, histVars, recvd, got, callVars, handling, work, fanIdx, update, fanStart,
                   fanRemoved, invoked, threw, fanOver, frameClass, frameEvents,
                   updatesInFrame, frameCalls>>

Subscribe(cb) ==
    /\ SubscribeCall(cb)
    /\ UNCHANGED auxVars

\* subscribe(cb), keeping count of the handles it has returned for cb
SubscribeHandle(cb) ==
    /\ handlesOut[cb] < MaxHandles
    /\ SubscribeCall(cb)
    /\ handlesOut' = [handlesOut EXCEPT ![cb] = @ + 1]
    /\ UNCHANGED <<genVars, chartVars, feedVars>>

\* a consumer invokes the handle subscribe(cb) returned
UnsubscribeCall(cb) ==
    /\ ~Busy
    /\ cb \in handles
    /\ UNCHANGED handles
    /\ callbacks' = Compact(unsubscribeHandle(callbacks, cb))
    /\ handleAgain' = (cb \notin Registered)
    /\ lastHandle' = cb
    /\ UNCHANGED <<connVars, coordVars, histVars, recvd, got, callVars, handling, work, fanIdx, update, fanStart,
                   fanRemoved, invoked, threw, fanOver, frameClass, frameEvents,
                   updatesInFrame, frameCalls>>

Unsubscribe(cb) ==
    /\ UnsubscribeCall(cb)
    /\ UNCHANGED auxVars

\* one of the handles held for cb is invoked (a handle is invoked once)
InvokeHandle(cb) ==
    /\ handlesOut[cb] > 0
    /\ UnsubscribeCall(cb)
    /\ handlesOut' = [handlesOut EXCEPT ![cb] = @ - 1]
    /\ UNCHANGED <<genVars, chartVars, feedVars>>

\* a message event on the open socket: onmessage parses the frame
OnMessage(frame) ==
    /\ ~Busy
    /\ isConnected(svc)
    /\ handling' = TRUE
    /\ recvd' = eventsOf(frame)
    /\ got' = [cb \in Callbacks |-> <<>>]
    /\ work' = tickersOf(frame)
    /\ frameClass' = classOf(frame)
    /\ frameEvents' = EventsIn(frame)
    /\ updatesInFrame' = 0
    /\ frameCalls' = 0
    /\ fanStart' = {}
    /\ fanRemoved' = {}
    /\ invoked' = [cb \in Callbacks |-> 0]
    /\ threw' = {}
    /\ fanOver' = FALSE
    /\ lastHandle' = 0
    /\ handleAgain' = FALSE
    /\ UNCHANGED <<connVars, coordVars, histVars, callVars, callbacks, fanIdx, update,
                   handles>>
    /\ UNCHANGED auxVars

\* handleTickerUpdate(tickerData) up to the start of callbacks.forEach; a
\* TypeError is caught by onmessage, which drops the rest of the frame
HandleTicker ==
    /\ handling
    /\ fanIdx = 0
    /\ work # <<>>
    /\ lastHandle' = 0
    /\ handleAgain' = FALSE
    /\ IF Head(work) = Throws
       THEN /\ work' = <<>>
            /\ UNCHANGED <<fanIdx, update, fanStart, fanRemoved, invoked, threw, fanOver,
                           updatesInFrame>>
       ELSE IF ~tickerComplete(Head(work))
       THEN /\ work' = Tail(work)
            /\ UNCHANGED <<fanIdx, update, fanStart, fanRemoved, invoked, threw, fanOver,
                           updatesInFrame>>
       ELSE IF Head(work).s = "NONSTRING"
       THEN /\ work' = <<>>
            /\ UNCHANGED <<fanIdx, update, fanStart, fanRemoved, invoked, threw, fanOver,
                           updatesInFrame>>
       ELSE /\ work' = Tail(work)
            /\ update' = priceUpdate(Head(work))
            /\ fanIdx' = 1
            /\ updatesInFrame' = updatesInFrame + 1
            /\ fanStart' = Registered
            /\ fanRemoved' = {}
            /\ invoked' = [cb \in Callbacks |-> 0]
            /\ threw' = {}
            /\ fanOver' = FALSE
    /\ UNCHANGED <<connVars, coordVars, histVars, recvd, got, callVars, callbacks, handling, frameClass,
                   frameEvents, frameCalls, handles>>
    /\ UNCHANGED auxVars

\* the registry calls a callback can make while it runs
Ops == [op : {"subscribe", "unsubscribe"}, cb : Consumers]

applyOp(list, op) ==
    IF op.op = "subscribe" THEN setAdd(list, op.cb) ELSE setDelete(list, op.cb)

\* one turn of callbacks.forEach: an emptied entry is passed over, the
\* callback of a live entry is invoked
FanStep ==
    /\ fanIdx \in 1..Len(callbacks)
    /\ running = 0
    /\ lastHandle' = 0
    /\ handleAgain' = FALSE
    /\ IF callbacks[fanIdx] = 0
       THEN /\ fanIdx' = fanIdx + 1
            /\ UNCHANGED <<running, invoked, frameCalls, got>>
       ELSE /\ running' = callbacks[fanIdx]
            /\ invoked' = [invoked EXCEPT ![callbacks[fanIdx]] = @ + 1]
            /\ frameCalls' = frameCalls + 1
            /\ got' = [got EXCEPT ![callbacks[fanIdx]] = Append(@, update)]
            /\ UNCHANGED fanIdx
    /\ UNCHANGED <<connVars, coordVars, histVars, callbacks, handles, handling, work,
                   update, opsDone, fanStart, fanRemoved, threw, fanOver, frameClass,
                   frameEvents, updatesInFrame, recvd>>
    /\ UNCHANGED auxVars

\* the running callback calls subscribe(cb) or an unsubscribe handle it
\* holds.  The coordinator's handlePriceUpdate calls neither.
CallbackCalls(op) ==
    /\ running \in Consumers
    /\ opsDone < MaxOps
    /\ op.op = "unsubscribe" => op.cb \in handles
    /\ Len(applyOp(callbacks, op)) <= MaxEntries
    /\ callbacks' = applyOp(callbacks, op)
    /\ handles' = IF op.op = "subscribe" THEN handles \cup {op.cb} ELSE handles
    /\ fanRemoved' = IF op.op = "unsubscribe" THEN fanRemoved \cup {op.cb} ELSE fanRemoved
    /\ opsDone' = opsDone + 1
    /\ UNCHANGED <<connVars, coordVars, histVars, handling, work, fanIdx, update, running,
                   fanStart, invoked, threw, fanOver, frameClass, frameEvents,
                   updatesInFrame, frameCalls, lastHandle, handleAgain, recvd, got>>
    /\ UNCHANGED auxVars

\* try { callback(update) } catch: an exception of the callback leaves forEach
escapes_noCatch(throws) == throws
escapes(throws) == FALSE

\* the running callback returns or throws; forEach goes on to the next entry
CallbackReturn(throws) ==
    /\ running # 0
    /\ running = handlePriceUpdate => ~throws
    /\ running' = 0
    /\ opsDone' = 0
    /\ threw' = IF throws THEN threw \cup {running} ELSE threw
    /\ IF escapes(throws)
       THEN fanIdx' = Len(callbacks) + 1 /\ work' = <<>>
       ELSE fanIdx' = fanIdx + 1 /\ UNCHANGED work
    /\ UNCHANGED <<connVars, coordVars, histVars, callbacks, handles, handling, update,
                   fanStart, fanRemoved, invoked, fanOver, frameClass, frameEvents,
                   updatesInFrame, frameCalls, lastHandle, handleAgain, recvd, got>>
    /\ UNCHANGED auxVars

\* callbacks.forEach has passed the last entry
FanEnd ==
    /\ fanIdx > Len(callbacks)
    /\ fanIdx' = 0
    /\ callbacks' = Compact(callbacks)
    /\ update' = NoUpdate
    /\ fanOver' = TRUE
    /\ lastHandle' = 0
    /\ handleAgain' = FALSE
    /\ UNCHANGED <<connVars, coordVars, histVars, recvd, got, callVars, handling, work, fanStart, fanRemoved,
                   invoked, threw, frameClass, frameEvents, updatesInFrame, frameCalls, handles>>
    /\ UNCHANGED auxVars

\* onmessage returns; what is recorded of the frame is dropped
HandlerReturn ==
    /\ handling
    /\ fanIdx = 0
    /\ work = <<>>
    /\ handling' = FALSE
    /\ recvd' = <<>>
    /\ got' = [cb \in Callbacks |-> <<>>]
    /\ fanStart' = {}
    /\ fanRemoved' = {}
    /\ invoked' = [cb \in Callbacks |-> 0]
    /\ threw' = {}
    /\ fanOver' = FALSE
    /\ frameClass' = "none"
    /\ frameEvents' = 0
    /\ updatesInFrame' = 0
    /\ frameCalls' = 0
    /\ lastHandle' = 0
    /\ handleAgain' = FALSE
    /\ UNCHANGED <<connVars, coordVars, histVars, callVars, callbacks, work, fanIdx, update, handles>>
    /\ UNCHANGED auxVars

\* The hub on an open connection: the state after the coordinator has
\* subscribed and connected and the socket has opened.
InitHub ==
    /\ AuxIdle
    /\ ws = 1
    /\ reconnectTimer = 0
    /\ callbacks = <<handlePriceUpdate>>
    /\ isConnecting = FALSE
    /\ reconnectAttempts = 0
    /\ symbols = CRYPTO_SYMBOLS
    /\ sock = [s \in 1..MaxSockets |-> IF s = 1 THEN "OPEN" ELSE "NONE"]
    /\ aborted = {}
    /\ timers = [t \in 1..MaxTimers |-> 0]
    /\ useFallback = FALSE
    /\ inflight = [time |-> 0, price |-> 0]
    /\ mounted = TRUE
    /\ setupTimer = FALSE
    /\ wsTimer = FALSE
    /\ statusTimer = TRUE
    /\ unsubscribe = TRUE
    /\ isConnectedFlag = TRUE
    /\ failures = 0
    /\ gaveUp = FALSE
    /\ disconnected = FALSE
    /\ staleTimers = {}
    /\ lastDelays = <<>>
    /\ handling = FALSE
    /\ work = <<>>
    /\ fanIdx = 0
    /\ update = NoUpdate
    /\ running = 0
    /\ opsDone = 0
    /\ fanStart = {}
    /\ fanRemoved = {}
    /\ invoked = [cb \in Callbacks |-> 0]
    /\ threw = {}
    /\ fanOver = FALSE
    /\ frameClass = "none"
    /\ frameEvents = 0
    /\ updatesInFrame = 0
    /\ frameCalls = 0
    /\ lastHandle = 0
    /\ handleAgain = FALSE
    /\ recvd = <<>>
    /\ got = [cb \in Callbacks |-> <<>>]
    /\ handles = {handlePriceUpdate}
    /\ DataIdle

\* The fan-out of single ticker events to callbacks that may throw and may
\* call subscribe() and unsubscribe handles while they run.
NextHub ==
    \/ \E cb \in Consumers : Subscribe(cb)
    \/ \E cb \in Consumers : Unsubscribe(cb)
    \/ \E frame \in EventFrames : OnMessage(frame)
    \/ HandleTicker
    \/ FanStep
    \/ \E op \in Ops : CallbackCalls(op)
    \/ \E throws \in BOOLEAN : CallbackReturn(throws)
    \/ FanEnd
    \/ HandlerReturn

SpecHub == InitHub /\ [][NextHub]_vars

\* Frames of every shape, fanned out to callbacks that may throw and that
\* leave the registry alone.
NextFrames ==
    \/ \E cb \in Consumers : Subscribe(cb)
    \/ \E cb \in Consumers : Unsubscribe(cb)
    \/ \E frame \in Frames : OnMessage(frame)
    \/ HandleTicker
    \/ FanStep
    \/ \E throws \in BOOLEAN : CallbackReturn(throws)
    \/ FanEnd
    \/ HandlerReturn

SpecFrames == InitHub /\ [][NextFrames]_vars

\* The registry alone: consumers subscribe any number of times and invoke the handles they
\* hold, between ticker frames.
NextRegistry ==
    \/ \E cb \in Consumers : SubscribeHandle(cb)
    \/ \E cb \in Consumers : InvokeHandle(cb)
    \/ \E frame \in EventFrames : OnMessage(frame)
    \/ HandleTicker
    \/ FanStep
    \/ \E throws \in BOOLEAN : CallbackReturn(throws)
    \/ FanEnd
    \/ HandlerReturn

SpecRegistry == InitHub /\ [][NextRegistry]_vars

\* ------------------------------------------- BinanceService: price data
\* String.prototype.toUpperCase / toLowerCase on the symbol names
LOWER_NAMES == <<"btc", "eth", "xrp", "ada", "sol", "dot", "link", "ltc", "doge">>
toUpperCase(s) ==
    IF \E i \in 1..Len(LOWER_NAMES) : LOWER_NAMES[i] = s
    THEN CRYPTO_SYMBOLS[CHOOSE i \in 1..Len(LOWER_NAMES) : LOWER_NAMES[i] = s]
    ELSE IF s = "bnb" THEN "BNB" ELSE s
toLowerCase(s) ==
    IF \E i \in 1..Len(CRYPTO_SYMBOLS) : CRYPTO_SYMBOLS[i] = s
    THEN LOWER_NAMES[CHOOSE i \in 1..Len(CRYPTO_SYMBOLS) : CRYPTO_SYMBOLS[i] = s]
    ELSE IF s = "BNB" THEN "bnb" ELSE s

\* `${symbol.toUpperCase()}USDT`
PAIR_NAMES == <<"BTCUSDT", "ETHUSDT", "XRPUSDT", "ADAUSDT", "SOLUSDT", "DOTUSDT",
                "LINKUSDT", "LTCUSDT", "DOGEUSDT">>
pairName(sym) ==
    IF \E i \in 1..Len(CRYPTO_SYMBOLS) : CRYPTO_SYMBOLS[i] = toUpperCase(sym)
    THEN PAIR_NAMES[CHOOSE i \in 1..Len(CRYPTO_SYMBOLS) : CRYPTO_SYMBOLS[i] = toUpperCase(sym)]
    ELSE "BNBUSDT"

\* The fallback table.  Numbers are in thousandths; total_volume is in
\* millions.
FALLBACK_KEYS == {CRYPTO_SYMBOLS[i] : i \in 1..Len(CRYPTO_SYMBOLS)}
FALLBACK_CRYPTO_DATA(k) ==
    CASE k = "BTC" -> [symbol |-> "BTCUSDT", current_price |-> 43500000, price_change_percentage_24h |-> 2500,
                    market_cap |-> 0, total_volume |-> 28000, high_24h |-> 44200000, low_24h |-> 42800000]
    [] k = "ETH" -> [symbol |-> "ETHUSDT", current_price |-> 2650000, price_change_percentage_24h |-> 3200,
                    market_cap |-> 0, total_volume |-> 15000, high_24h |-> 2720000, low_24h |-> 2580000]
    [] k = "XRP" -> [symbol |-> "XRPUSDT", current_price |-> 620, price_change_percentage_24h |-> 1800,
                    market_cap |-> 0, total_volume |-> 2500, high_24h |-> 650, low_24h |-> 600]
    [] k = "ADA" -> [symbol |-> "ADAUSDT", current_price |-> 480, price_change_percentage_24h |-> -500,
                    market_cap |-> 0, total_volume |-> 800, high_24h |-> 500, low_24h |-> 460]
    [] k = "SOL" -> [symbol |-> "SOLUSDT", current_price |-> 105500, price_change_percentage_24h |-> 4100,
                    market_cap |-> 0, total_volume |-> 3200, high_24h |-> 108000, low_24h |-> 102000]
    [] k = "DOT" -> [symbol |-> "DOTUSDT", current_price |-> 7250, price_change_percentage_24h |-> 1200,
                    market_cap |-> 0, total_volume |-> 450, high_24h |-> 7450, low_24h |-> 7100]
    [] k = "LINK" -> [symbol |-> "LINKUSDT", current_price |-> 15800, price_change_percentage_24h |-> 2800,
                    market_cap |-> 0, total_volume |-> 680, high_24h |-> 16200, low_24h |-> 15400]
    [] k = "LTC" -> [symbol |-> "LTCUSDT", current_price |-> 75200, price_change_percentage_24h |-> 1500,
                    market_cap |-> 0, total_volume |-> 950, high_24h |-> 76800, low_24h |-> 73900]
    [] k = "DOGE" -> [symbol |-> "DOGEUSDT", current_price |-> 85, price_change_percentage_24h |-> 5200,
                    market_cap |-> 0, total_volume |-> 1200, high_24h |-> 89, low_24h |-> 81]

\* a BinanceTicker of the /ticker/24hr response, by the fields that are read
BinanceTicker(sym, last) ==
    [symbol |-> sym, lastPrice |-> last, priceChangePercent |-> "-1.25",
     volume |-> "1000.00", highPrice |-> "430.00", lowPrice |-> "410.00"]
TickerPool == {BinanceTicker(sym, last) : sym \in {"BTCUSDT", "ETHUSDT", "BNBUSDT"},
                                          last \in {"420.50", "421.75"}}
TickerLists == UNION {[1..n -> TickerPool] : n \in 0..MaxTickers}

\* what fetch() of /ticker/24hr ends with: a 200 response with a ticker list,
\* a response that is not ok, or a rejection (network error, CORS).  The
\* lists of the responses are made of one ticker per pair; lists in which
\* a pair occurs twice with different prices are among TickerLists.
Response(kind, status, tickers) == [kind |-> kind, status |-> status, tickers |-> tickers]
ResponseLists == UNION {[1..n -> {BinanceTicker("BTCUSDT", "420.50"),
                                   BinanceTicker("ETHUSDT", "421.75"),
                                   BinanceTicker("BNBUSDT", "420.50")}] : n \in 0..MaxTickers}
Responses == {Response("ok", 200, tl) : tl \in ResponseLists}
             \cup {Response("http", st, <<>>) : st \in {401, 429, 500}}
             \cup {Response("network", 0, <<>>)}

\* allTickers.find(t => t.symbol === name): the position of the first match, or 0
find(allTickers, name) ==
    IF \E i \in 1..Len(allTickers) : allTickers[i].symbol = name
    THEN SetMin({i \in 1..Len(allTickers) : allTickers[i].symbol = name})
    ELSE 0

\* the BinancePriceData built from a ticker
priceData(ticker) ==
    [symbol |-> ticker.symbol,
     current_price |-> parseFloat(ticker.lastPrice),
     price_change_percentage_24h |-> parseFloat(ticker.priceChangePercent),
     market_cap |-> 0,
     total_volume |-> parseFloat(ticker.volume),
     high_24h |-> parseFloat(ticker.highPrice),
     low_24h |-> parseFloat(ticker.lowPrice)]

\* the keys symbols.forEach(symbol => ...) visits
keysOf(syms) == {toUpperCase(syms[i]) : i \in 1..Len(syms)}

\* getCurrentPrice on a 200 response: for each symbol whose ticker is found,
\* result[symbol.toUpperCase()] = the data of the first such ticker
liveResult_insertAll(syms, allTickers) ==
    [k \in keysOf(syms) |->
        IF find(allTickers, pairName(k)) # 0
        THEN priceData(allTickers[find(allTickers, pairName(k))])
        ELSE priceData(BinanceTicker(pairName(k), ""))]
liveResult(syms, allTickers) ==
    [k \in {key \in keysOf(syms) : find(allTickers, pairName(key)) # 0} |->
        priceData(allTickers[find(allTickers, pairName(k))])]

\* getCurrentPrice in fallback mode: the entries of the fallback table
fallbackResult_first(syms) ==
    [k \in {key \in keysOf(syms) : key = toUpperCase(syms[1])} |-> FALLBACK_CRYPTO_DATA(k)]
fallbackResult(syms) ==
    [k \in keysOf(syms) \cap FALLBACK_KEYS |-> FALLBACK_CRYPTO_DATA(k)]

\* convertApiDataToCryptoData (name, pair and logo follow from the symbol
\* and are left out)
convertApiDataToCryptoData(apiData) ==
    [k \in DOMAIN apiData |->
        [id |-> toLowerCase(k),
         symbol |-> toUpperCase(k),
         price |-> apiData[k].current_price,
         change24h |-> apiData[k].price_change_percentage_24h,
         high24h |-> apiData[k].high_24h,
         low24h |-> apiData[k].low_24h,
         marketCap |-> apiData[k].market_cap,
         volume24h |-> apiData[k].total_volume,
         isFavorite |-> (k = "ETH")]]

\* ------------------------------------------------- the candle generators
\* Prices are integers: thousandths of a dollar in BinanceService, 1e-7
\* dollar in CoinGeckoService (toFixed(6) rounds to tens) and 1e-5 dollar in
\* generateMockCandles (toFixed(4) rounds to tens).  Math.random() is a
\* number of thousandths drawn from Random.
Max(a, b) == IF a > b THEN a ELSE b
Random == {0, 999}

\* a * n / d rounded towards zero, computed without leaving 32 bits
MulDiv(a, n, d) == (a \div d) * n + ((a % d) * n) \div d
Scale(a, n, d) == IF n >= 0 THEN MulDiv(a, n, d) ELSE -MulDiv(a, -n, d)

\* number.toFixed(digits) read back by parseFloat, for a number >= 0 given
\* in units of which unit make one step of the last digit kept
toFixed(x, unit) == ((x + unit \div 2) \div unit) * unit

\* BinanceService.getIntervalMs
getIntervalMs(interval) ==
    CASE interval = "1m" -> 60000
      [] interval = "5m" -> 300000
      [] interval = "15m" -> 900000
      [] interval = "1h" -> 3600000
      [] interval = "4h" -> 14400000
      [] interval = "1d" -> 86400000
      [] interval = "1w" -> 604800000
      [] OTHER -> 3600000

\* timeframeMinutes of generateMockCandles
timeframeMinutes(timeframe) ==
    CASE timeframe = "1m" -> 1
      [] timeframe = "5m" -> 5
      [] timeframe = "15m" -> 15
      [] timeframe = "1h" -> 60
      [] timeframe = "1d" -> 1440
      [] timeframe = "1w" -> 10080
      [] OTHER -> 60

\* Date.now() in ms (a reading that fits 32 bits) and, for
\* generateMockCandles, new Date() in minutes: 23:30 UTC of some day
NowMs == 1700000123
NowMinutes == 20000 * 1440 + 1410
\* the browser's time zones: minutes east of UTC
TimeZones == {0, 60, -300}

\* timestamp.toISOString().split('T')[0] + ' ' + timestamp.toTimeString().split(' ')[0]
\* of a timestamp given in minutes: the UTC date followed by the local time of day
timeString(minutes, zone) == <<minutes \div 1440, (minutes + zone) % 1440>>

\* times are pairs; the number of seconds t of a FormattedCandleData is <<t, 0>>
TimeLess(a, b) == a[1] < b[1] \/ (a[1] = b[1] /\ a[2] < b[2])

\* the base price of generateMockKlineData: the key is the symbol as passed
mockKlineBasePrice(symbol) ==
    IF symbol \in FALLBACK_KEYS THEN FALLBACK_CRYPTO_DATA(symbol).current_price ELSE 100000

\* the base price of generateMockCandles, in 1e-5 dollar
mockCandlesBasePrice(symbol) ==
    IF symbol = "BTC" THEN 45000 * 100000
    ELSE IF symbol = "ETH" THEN 2800 * 100000
    ELSE IF symbol = "XRP" THEN 60000
    ELSE 400 * 100000

\* the calls made of the generators.  CoinGeckoService.generateFallbackData
\* is given the price getCurrentPrice([symbol]) returned, or 100 (in 1e-7
\* dollar); generateMockCandles is not called for BTC here, whose price in
\* 1e-5 dollar does not fit 32 bits.
GenCalls ==
    [gen : {"generateMockKlineData"}, symbol : {"BTC", "DOGE", "btc"},
     interval : {"1m", "30m", "1w"}, limit : 0..MaxCount, zone : {0}]
    \cup [gen : {"generateFallbackData"}, price : {21000000, 1000000000}, zone : {0}]
    \cup [gen : {"generateMockCandles"}, symbol : {"ETH", "XRP", "DOGE"},
          timeframe : {"1h", "1d", "4h"}, count : 0..MaxCount, zone : TimeZones]

\* a generator is called: the state before its loop
GenStart(call) ==
    /\ genCall = NoCall
    /\ genCall' = call
    /\ genI' = CASE call.gen = "generateMockKlineData" -> call.limit - 1
                 [] call.gen = "generateFallbackData" -> 100
                 [] call.gen = "generateMockCandles" -> call.count
    /\ currentPrice' = IF call.gen = "generateMockCandles"
                       THEN mockCandlesBasePrice(call.symbol) ELSE 0
    /\ candle' = NoCandle
    /\ prevTime' = NoTime
    /\ UNCHANGED <<connVars, hubVars, coordVars, histVars, chartVars, feedVars, regVars>>

\* data.push / candles.push, and what remains of the loop
push(c) ==
    /\ candle' = c
    /\ prevTime' = IF candle = NoCandle THEN NoTime ELSE candle.time
    /\ genI' = genI - 1
    /\ UNCHANGED <<genCall, connVars, hubVars, coordVars, histVars, chartVars, feedVars, regVars>>

\* one turn of the loop of BinanceService.generateMockKlineData
GenerateMockKlineData(r1, r2, r3, r4, r5) ==
    /\ genCall.gen = "generateMockKlineData"
    /\ genI >= 0
    /\ LET basePrice == mockKlineBasePrice(genCall.symbol)
           intervalMs == getIntervalMs(genCall.interval)
           time == (NowMs - genI * intervalMs) \div 1000
           open == basePrice + Scale(basePrice, (r1 - 500) * 2, 100000)
           close == open + Scale(open, (r2 - 500) * 2, 100000)
           high == Max(open, close) + Scale(Max(open, close), r3, 100000)
           low == Min(open, close) - Scale(Min(open, close), r4, 100000)
           volume == r5 * 1000
       IN  push([time |-> <<time, 0>>, open |-> open, high |-> high, low |-> low,
                 close |-> close, volume |-> volume])
    /\ UNCHANGED currentPrice

\* one turn of the loop of CoinGeckoService.generateFallbackData
GenerateFallbackData(r0, r1, r3, r4, r5) ==
    /\ genCall.gen = "generateFallbackData"
    /\ genI >= 0
    /\ LET intervalMs == 30 * 60 * 1000
           timestamp == (NowMs - genI * intervalMs) \div 1000
           basePrice == genCall.price + Scale(genCall.price, r0 - 500, 10000)
           open == basePrice
           change == Scale(open, (r1 - 500) * 2, 100000)
           close == open + change
           high == Max(open, close) + Scale(Max(open, close), r3, 100000)
           low == Min(open, close) - Scale(Min(open, close), r4, 100000)
           volume == r5 * 1000 + 500000
       IN  push([time |-> <<timestamp, 0>>, open |-> toFixed(open, 10), high |-> toFixed(high, 10),
                 low |-> toFixed(low, 10), close |-> toFixed(close, 10), volume |-> volume])
    /\ UNCHANGED currentPrice

\* one turn of the loop of generateMockCandles
GenerateMockCandles(r0, r1, r3, r4, r5) ==
    /\ genCall.gen = "generateMockCandles"
    /\ genI >= 0
    /\ LET timestamp == NowMinutes - genI * timeframeMinutes(genCall.timeframe)
           volatility == 2000 + r0 * 2
           open == currentPrice
           change == Scale(Scale(open, r1 - 500, 1000), volatility, 100000)
           close == open + change
           high == Max(open, close) + Scale(Max(open, close), r3, 100000)
           low == Min(open, close) - Scale(Min(open, close), r4, 100000)
           volume == r5 * 1000 + 500000
       IN  /\ push([time |-> timeString(timestamp, genCall.zone), open |-> toFixed(open, 10),
                    high |-> toFixed(high, 10), low |-> toFixed(low, 10),
                    close |-> toFixed(close, 10), volume |-> volume])
           /\ currentPrice' = close

\* the generator returns its candles
GenReturn ==
    /\ genCall # NoCall
    /\ genI < 0
    /\ genCall' = NoCall
    /\ currentPrice' = 0
    /\ candle' = NoCandle
    /\ prevTime' = NoTime
    /\ UNCHANGED <<genI, connVars, hubVars, coordVars, histVars, chartVars, feedVars, regVars>>

\* ---------------------------------- BinanceService: the calls of a chart
\* BinanceService.formatInterval
formatInterval(timeframe) ==
    IF timeframe \in {"1m", "5m", "15m", "1h", "4h", "1d", "1w"} THEN timeframe ELSE "1h"

\* BinanceDatafeed.convertResolution
convertResolution(resolution) ==
    CASE resolution = "1" -> "1m"
      [] resolution = "5" -> "5m"
      [] resolution = "15" -> "15m"
      [] resolution = "30" -> "30m"
      [] resolution = "60" -> "1h"
      [] resolution = "240" -> "4h"
      [] resolution = "1D" -> "1d"
      [] resolution = "1W" -> "1w"
      [] OTHER -> "1h"

\* supported_resolutions: a number is a number of minutes, 1D a day, 1W a week
SUPPORTED_RESOLUTIONS == <<"1", "5", "15", "30", "60", "240", "1D", "1W">>
ResolutionMinutes == <<1, 5, 15, 30, 60, 240, 1440, 10080>>
\* the interval keys of the REST candle endpoint and the minutes each denotes
INTERVAL_KEYS == <<"1m", "5m", "15m", "30m", "1h", "4h", "1d", "1w">>
minutesOfKey(key) ==
    IF \E i \in 1..Len(INTERVAL_KEYS) : INTERVAL_KEYS[i] = key
    THEN ResolutionMinutes[CHOOSE i \in 1..Len(INTERVAL_KEYS) : INTERVAL_KEYS[i] = key]
    ELSE 0

ChartSymbols == {"BTC", "btc", "BNB"}

\* whether fn, entered in mode fb, returns from the fallback data without a
\* request: getTicker24hr only for a symbol of the fallback table
returnsFallback(fn, symbol, fb) ==
    IF fn = "getTicker24hr" THEN fb /\ toUpperCase(symbol) \in FALLBACK_KEYS ELSE fb

\* fn is entered (called, or called by itself after a failure): it returns
\* from the fallback data or sends its request
enter(fn, symbol, interval, depth, requests, fb) ==
    [fn |-> fn, symbol |-> symbol, interval |-> interval, depth |-> depth,
     requests |-> IF returnsFallback(fn, symbol, fb) THEN requests ELSE requests + 1,
     awaiting |-> ~returnsFallback(fn, symbol, fb),
     sent |-> IF fn = "getKlineData" /\ ~fb THEN formatInterval(interval) ELSE "",
     result |-> IF ~returnsFallback(fn, symbol, fb) THEN "none"
                ELSE IF fn = "getKlineData" THEN "mock" ELSE "fallback",
     intervalMs |-> IF fn = "getKlineData" /\ fb THEN getIntervalMs(interval) ELSE 0]

\* BinanceDatafeed.getBars(symbolInfo, resolution, ...) calls getKlineData
GetBars(symbol, resolution) ==
    /\ chartCall = NoChart
    /\ chartCall' = enter("getKlineData", symbol, convertResolution(resolution), 0, 0, useFallback)
    /\ UNCHANGED <<connVars, hubVars, coordVars, histVars, genVars, feedVars, regVars>>

\* a chart calls getTicker24hr(symbol)
GetTicker24hr(symbol) ==
    /\ chartCall = NoChart
    /\ chartCall' = enter("getTicker24hr", symbol, "", 0, 0, useFallback)
    /\ UNCHANGED <<connVars, hubVars, coordVars, histVars, genVars, feedVars, regVars>>

\* the quote feed calls getCurrentPrice(CRYPTO_SYMBOLS)
GetCurrentPrice ==
    /\ chartCall = NoChart
    /\ chartCall' = enter("getCurrentPrice", "", "", 0, 0, useFallback)
    /\ UNCHANGED <<connVars, hubVars, coordVars, histVars, genVars, feedVars, regVars>>

\* the request of the call ends.  A failure is caught: the service enters
\* fallback mode; getKlineData returns mock candles, getTicker24hr and
\* getCurrentPrice call themselves again.
ChartSettled(ok) ==
    /\ chartCall # NoChart
    /\ chartCall.awaiting
    /\ ok \/ chartCall.fn = "getKlineData" \/ chartCall.depth < MaxDepth
    /\ useFallback' = (useFallback \/ ~ok)
    /\ chartCall' =
         IF ok THEN [chartCall EXCEPT !.awaiting = FALSE, !.result = "live"]
         ELSE IF chartCall.fn = "getKlineData"
         THEN [chartCall EXCEPT !.awaiting = FALSE, !.result = "mock",
                                !.intervalMs = getIntervalMs(chartCall.interval)]
         ELSE enter(chartCall.fn, chartCall.symbol, chartCall.interval,
                    chartCall.depth + 1, chartCall.requests, TRUE)
    /\ UNCHANGED <<connVars, hubVars, histVars, genVars, feedVars, regVars, inflight, mounted, setupTimer,
                   wsTimer, statusTimer, unsubscribe, isConnectedFlag, dataVars>>

\* the call returns to the chart
ChartReturn ==
    /\ chartCall # NoChart
    /\ ~chartCall.awaiting
    /\ chartCall' = NoChart
    /\ UNCHANGED <<connVars, hubVars, coordVars, histVars, genVars, feedVars, regVars>>

\* ------------------------------------------------------- BinanceDatafeed
FeedUids == {1, 2}
FeedSymbols == {"BTCUSDT", "ETHUSDT"}
FreeKlines == {s \in 1..MaxKlines : klineSockets[s] = NoSocket}
OpenKlines == {s \in 1..MaxKlines : klineSockets[s] # NoSocket}

\* subscribeBars(symbolInfo, resolution, onRealtimeCallback, subscriberUID):
\* the entry is set and startWebSocketConnection creates a socket whose
\* onmessage holds the callback (named by its subscriberUID)
SubscribeBars(uid, symbol) ==
    /\ FreeKlines # {}
    /\ subscriptions' = [u \in DOMAIN subscriptions \cup {uid} |->
                            IF u = uid THEN symbol ELSE subscriptions[u]]
    /\ klineSockets' = [klineSockets EXCEPT ![SetMin(FreeKlines)] =
                            [uid |-> uid, symbol |-> symbol, open |-> TRUE]]
    /\ barTo' = 0
    /\ UNCHANGED <<connVars, hubVars, coordVars, histVars, genVars, chartVars, regVars>>

\* unsubscribeBars(subscriberUID)
UnsubscribeBars(uid) ==
    /\ subscriptions' = [u \in DOMAIN subscriptions \ {uid} |-> subscriptions[u]]
    /\ barTo' = 0
    /\ UNCHANGED <<klineSockets, connVars, hubVars, coordVars, histVars, genVars, chartVars, regVars>>

\* ws.onmessage of socket s: a message with a k field is passed to the callback
KlineMessage(s, hasK) ==
    /\ klineSockets[s] # NoSocket
    /\ barTo' = IF hasK THEN klineSockets[s].uid ELSE 0
    /\ UNCHANGED <<subscriptions, klineSockets, connVars, hubVars, coordVars, histVars,
                   genVars, chartVars, regVars>>

\* the connection of socket s ends (closed by the server, or failed)
KlineClosed(s) ==
    /\ klineSockets[s] # NoSocket
    /\ klineSockets' = [klineSockets EXCEPT ![s] = NoSocket]
    /\ barTo' = 0
    /\ UNCHANGED <<subscriptions, connVars, hubVars, coordVars, histVars, genVars, chartVars, regVars>>

\* ------------------------------------------------------- BinanceService
InFlight == inflight.time + inflight.price

\* getServerTime(): in fallback mode no request is made; a failed request
\* switches the service to fallback mode and still resolves
FetchTime(ok) ==
    /\ inflight.time > 0
    /\ useFallback => ok
    /\ useFallback' = (useFallback \/ ~ok)
    /\ inflight' = [inflight EXCEPT !.time = @ - 1, !.price = @ + 1]
    /\ UNCHANGED <<connVars, hubVars, mounted, setupTimer, wsTimer, statusTimer,
                   unsubscribe, isConnectedFlag, failures, gaveUp, disconnected, staleTimers>>
    /\ lastDelays' = <<>>
    /\ UNCHANGED dataVars
    /\ UNCHANGED auxVars

\* getCurrentPrice() and the rest of fetchInitialData: "live" data, an
\* "empty" result (no requested symbol in the response) or a failed request,
\* which switches to fallback mode and retries from the fallback table
FetchPrice(outcome) ==
    /\ inflight.price > 0
    /\ useFallback => outcome = "live"
    /\ useFallback' = (useFallback \/ outcome = "fail")
    /\ inflight' = [inflight EXCEPT !.price = @ - 1]
    /\ isConnectedFlag' = IF mounted THEN outcome # "empty" ELSE isConnectedFlag
    /\ UNCHANGED <<connVars, hubVars, mounted, setupTimer, wsTimer, statusTimer,
                   unsubscribe, failures, gaveUp, disconnected, staleTimers>>
    /\ lastDelays' = <<>>
    /\ UNCHANGED dataVars
    /\ UNCHANGED auxVars

\* ------------------------------------------------ useCryptoData's effect
\* useEffect body: fetchInitialData() is started and the setup timer armed
EffectMount ==
    /\ ~mounted
    /\ InFlight < MaxFetches
    /\ mounted' = TRUE
    /\ inflight' = [inflight EXCEPT !.time = @ + 1]
    /\ setupTimer' = TRUE
    /\ wsTimer' = FALSE
    /\ statusTimer' = FALSE
    /\ unsubscribe' = FALSE
    /\ isConnectedFlag' = FALSE
    /\ UNCHANGED <<connVars, hubVars, useFallback, failures, gaveUp, disconnected, staleTimers>>
    /\ lastDelays' = <<>>
    /\ UNCHANGED dataVars
    /\ UNCHANGED auxVars

\* refetch(): fetchInitialData() again
Refetch ==
    /\ mounted
    /\ InFlight < MaxFetches
    /\ inflight' = [inflight EXCEPT !.time = @ + 1]
    /\ UNCHANGED <<connVars, hubVars, useFallback, mounted, setupTimer, wsTimer,
                   statusTimer, unsubscribe, isConnectedFlag, failures, gaveUp, disconnected, staleTimers>>
    /\ lastDelays' = <<>>
    /\ UNCHANGED dataVars
    /\ UNCHANGED auxVars

\* the 2000 ms setup timer fires: setupWebSocket()
SetupWebSocket ==
    /\ setupTimer
    /\ setupTimer' = FALSE
    /\ IF ~useFallback
       THEN /\ callbacks' = subscribe(callbacks, handlePriceUpdate)
            /\ handles' = handles \cup {handlePriceUpdate}
            /\ unsubscribe' = TRUE
            /\ wsTimer' = TRUE
            /\ statusTimer' = TRUE
       ELSE UNCHANGED <<callbacks, handles, unsubscribe, wsTimer, statusTimer>>
    /\ UNCHANGED <<connVars, hubRun, useFallback, inflight, mounted, isConnectedFlag,
                   failures, gaveUp, disconnected, staleTimers>>
    /\ lastDelays' = <<>>
    /\ UNCHANGED dataVars
    /\ UNCHANGED auxVars

\* the 1000 ms timer fires: websocketService.connect(CRYPTO_SYMBOLS)
WsTimerFire ==
    /\ wsTimer
    /\ wsTimer' = FALSE
    /\ SetSvc(connect([svc EXCEPT !.stale = {}], CRYPTO_SYMBOLS))
    /\ disconnected' = FALSE
    /\ UNCHANGED <<hubVars, useFallback, inflight, mounted, setupTimer, statusTimer,
                   unsubscribe, isConnectedFlag, failures>>
    /\ UNCHANGED dataVars
    /\ UNCHANGED auxVars

\* the 5000 ms interval fires: the health check
StatusTick ==
    /\ statusTimer
    /\ isConnectedFlag' = isConnected(svc)
    /\ IF ~isConnected(svc) /\ ~useFallback
       THEN /\ SetSvc(connect([svc EXCEPT !.stale = {}], CRYPTO_SYMBOLS))
            /\ disconnected' = FALSE
       ELSE /\ UNCHANGED <<connVars, gaveUp, disconnected, staleTimers>>
            /\ lastDelays' = <<>>
    /\ UNCHANGED <<hubVars, useFallback, inflight, mounted, setupTimer, wsTimer,
                   statusTimer, unsubscribe, failures>>
    /\ UNCHANGED dataVars
    /\ UNCHANGED auxVars

\* the effect's cleanup
EffectCleanup ==
    /\ mounted
    /\ mounted' = FALSE
    /\ setupTimer' = FALSE
    /\ wsTimer' = FALSE
    /\ statusTimer' = FALSE
    /\ unsubscribe' = FALSE
    /\ callbacks' = IF unsubscribe
                    THEN Compact(unsubscribeHandle(callbacks, handlePriceUpdate))
                    ELSE callbacks
    /\ LET T == disconnect(svc)
       IN  SetSvc([T EXCEPT !.gaveUp = FALSE,
                            !.stale = {t \in 1..MaxTimers : T.timers[t] > 0}])
    /\ disconnected' = TRUE
    /\ failures' = 0
    /\ UNCHANGED <<handles, hubRun, useFallback, inflight, isConnectedFlag>>
    /\ UNCHANGED dataVars
    /\ UNCHANGED auxVars

\* ------------------------------------------ useCryptoData: the bootstrap
DEMO_DATA == "Using demo data - Binance API unavailable due to browser CORS restrictions"
NO_DATA == "API Error: No data received from API"
RATE_LIMIT == "Rate limit exceeded. Please try again in a few minutes."

\* new Date(): a reading of the clock that differs from the last one
now == (lastUpdate % MaxStamps) + 1

\* the requested symbols whose ticker a response carries
foundIn(syms, resp) ==
    {toUpperCase(syms[i]) : i \in {j \in 1..Len(syms) :
        \E n \in 1..Len(resp.tickers) : resp.tickers[n].symbol = pairName(syms[j])}}

\* what a getCurrentPrice request that ended with resp returns; a response
\* that is not ok and a rejection are caught, switch the service to fallback
\* mode and return the fallback table
getCurrentPrice(syms, resp) ==
    IF resp.kind = "ok" THEN liveResult(syms, resp.tickers) ELSE fallbackResult(syms)

\* getCurrentPrice(CRYPTO_SYMBOLS) and the records made of its result, for
\* each way its request can end and for fallback mode
apiDataFor == [resp \in Responses |-> getCurrentPrice(CRYPTO_SYMBOLS, resp)]
foundFor == [resp \in Responses |-> foundIn(CRYPTO_SYMBOLS, resp)]
fallbackApiData == fallbackResult(CRYPTO_SYMBOLS)
recordsOf == [apiData \in {apiDataFor[resp] : resp \in Responses} \cup {fallbackApiData} |->
                convertApiDataToCryptoData(apiData)]

causeOf(resp) ==
    IF resp.kind = "ok" THEN "ok"
    ELSE IF resp.kind = "http" /\ resp.status = 429 THEN "429"
    ELSE IF resp.kind = "http" THEN "http"
    ELSE "network"

\* fetchInitialData from the return of getCurrentPrice on (lines 70-109):
\* an empty result is thrown and caught, any other result is installed.
\* c is the slot of the call (0 when it never awaited a request), fb is
\* isUsingFallback() now, seen is what the call saw of the network.
settle(c, apiData, fb, seen) ==
    /\ IF DOMAIN apiData = {}
       THEN /\ error' = NO_DATA
            /\ isConnectedFlag' = FALSE
            /\ UNCHANGED <<cryptoData, lastUpdate>>
       ELSE /\ cryptoData' = recordsOf[apiData]
            /\ lastUpdate' = now
            /\ isConnectedFlag' = TRUE
            /\ error' = IF fb THEN DEMO_DATA ELSE IF c = 0 THEN "null" ELSE error
    /\ isLoading' = FALSE
    /\ lastFetch' = [seen EXCEPT !.data = IF DOMAIN apiData = {} THEN "none"
                                          ELSE IF seen.cause = "ok" THEN "live"
                                          ELSE "synthetic"]
    /\ delivered' = NoUpdate
    /\ IF c = 0 \/ c = newest
       THEN /\ newest' = 0
            /\ newestDone' = TRUE
            /\ staleApplied' = FALSE
       ELSE /\ UNCHANGED <<newest, newestDone>>
            /\ staleApplied' = (staleApplied \/
                    (newestDone /\ <<cryptoData', isConnectedFlag', error'>>
                                    # <<cryptoData, isConnectedFlag, error>>))

\* a fetchInitialData() that arms the effect's setup timer again
FetchInitialData_rearms ==
    /\ mounted
    /\ \E c \in 1..MaxCalls : calls[c] = "none"
    /\ IF useFallback
       THEN /\ settle(0, fallbackApiData, TRUE, [cause |-> "fallback", data |-> "none", found |-> {}])
            /\ UNCHANGED <<calls, useFallback>>
       ELSE /\ calls' = [calls EXCEPT ![SetMin({c \in 1..MaxCalls : calls[c] = "none"})] = "time"]
            /\ newest' = SetMin({c \in 1..MaxCalls : calls[c] = "none"})
            /\ newestDone' = FALSE
            /\ staleApplied' = FALSE
            /\ isLoading' = TRUE
            /\ error' = "null"
            /\ lastFetch' = NoFetch
            /\ delivered' = NoUpdate
            /\ UNCHANGED <<cryptoData, lastUpdate, isConnectedFlag, useFallback>>
    /\ setupTimer' = TRUE
    /\ UNCHANGED <<connVars, hubVars, histVars, inflight, mounted, wsTimer, statusTimer, unsubscribe>>
    /\ UNCHANGED auxVars

\* fetchInitialData() is called (by refetch(); the effect's call is the one
\* in flight initially).  In fallback mode getServerTime and getCurrentPrice
\* make no request and the call runs to its end at once.
FetchInitialData ==
    /\ mounted
    /\ \E c \in 1..MaxCalls : calls[c] = "none"
    /\ IF useFallback
       THEN /\ settle(0, fallbackApiData, TRUE, [cause |-> "fallback", data |-> "none", found |-> {}])
            /\ UNCHANGED <<calls, useFallback>>
       ELSE /\ calls' = [calls EXCEPT ![SetMin({c \in 1..MaxCalls : calls[c] = "none"})] = "time"]
            /\ newest' = SetMin({c \in 1..MaxCalls : calls[c] = "none"})
            /\ newestDone' = FALSE
            /\ staleApplied' = FALSE
            /\ isLoading' = TRUE
            /\ error' = "null"
            /\ lastFetch' = NoFetch
            /\ delivered' = NoUpdate
            /\ UNCHANGED <<cryptoData, lastUpdate, isConnectedFlag, useFallback>>
    /\ UNCHANGED <<connVars, hubVars, histVars, effectVars>>
    /\ UNCHANGED auxVars

\* the request of getServerTime() of call c ends; a failure switches the
\* service to fallback mode.  getCurrentPrice then either sends its request
\* or, in fallback mode, returns the fallback table at once.
ServerTimeSettled(c, ok) ==
    /\ calls[c] = "time"
    /\ useFallback' = (useFallback \/ ~ok)
    /\ IF useFallback'
       THEN /\ calls' = [calls EXCEPT ![c] = "none"]
            /\ settle(c, fallbackApiData, TRUE, [cause |-> IF ok THEN "late-fallback" ELSE "network",
                                           data |-> "none", found |-> {}])
       ELSE /\ calls' = [calls EXCEPT ![c] = "price"]
            /\ lastFetch' = NoFetch
            /\ delivered' = NoUpdate
            /\ UNCHANGED <<cryptoData, error, lastUpdate, isLoading, isConnectedFlag,
                           newest, newestDone, staleApplied>>
    /\ UNCHANGED <<connVars, hubVars, histVars, effectVars>>
    /\ UNCHANGED auxVars

\* the request of getCurrentPrice() of call c ends with resp
PriceSettled(c, resp) ==
    /\ calls[c] = "price"
    /\ calls' = [calls EXCEPT ![c] = "none"]
    /\ useFallback' = (useFallback \/ resp.kind # "ok")
    /\ settle(c, apiDataFor[resp], useFallback',
              [cause |-> causeOf(resp), data |-> "none", found |-> foundFor[resp]])
    /\ UNCHANGED <<connVars, hubVars, histVars, effectVars>>
    /\ UNCHANGED auxVars

\* the updates the hub delivers to the coordinator
PriceUpdates == [symbol : {"btc", "ETH", "bnb"}, price : {500000}, change24h : {7000}]

\* prevData.map(crypto => ...) of handlePriceUpdate
applyUpdate_exact(data, u) ==
    [k \in DOMAIN data |->
        IF data[k].symbol = u.symbol
        THEN [data[k] EXCEPT !.price = u.price, !.change24h = u.change24h]
        ELSE data[k]]
applyUpdate(data, u) ==
    [k \in DOMAIN data |->
        IF toLowerCase(data[k].symbol) = toLowerCase(u.symbol)
        THEN [data[k] EXCEPT !.price = u.price, !.change24h = u.change24h]
        ELSE data[k]]

\* handlePriceUpdate(update)
HandlePriceUpdate(u) ==
    /\ mounted
    /\ cryptoData' = applyUpdate(cryptoData, u)
    /\ lastUpdate' = now
    /\ isConnectedFlag' = TRUE
    /\ delivered' = u
    /\ lastFetch' = NoFetch
    /\ UNCHANGED <<connVars, hubVars, histVars, effectVars, useFallback, error, isLoading,
                   calls, newest, newestDone, staleApplied>>
    /\ UNCHANGED auxVars

\* toggleFavorite(id)
ToggleFavorite(id) ==
    /\ mounted
    /\ \E k \in DOMAIN cryptoData : cryptoData[k].id = id
    /\ cryptoData' = [k \in DOMAIN cryptoData |->
                        IF cryptoData[k].id = id
                        THEN [cryptoData[k] EXCEPT !.isFavorite = ~@]
                        ELSE cryptoData[k]]
    /\ delivered' = NoUpdate
    /\ lastFetch' = NoFetch
    /\ UNCHANGED <<connVars, hubVars, histVars, effectVars, useFallback, error, isLoading,
                   calls, newest, newestDone, staleApplied, lastUpdate, isConnectedFlag>>
    /\ UNCHANGED auxVars

\* ------------------------------------------------------- specification
Init ==
    /\ AuxIdle
    /\ ws = 0
    /\ reconnectTimer = 0
    /\ callbacks = <<>>
    /\ isConnecting = FALSE
    /\ reconnectAttempts = 0
    /\ symbols = <<>>
    /\ sock = [s \in 1..MaxSockets |-> "NONE"]
    /\ aborted = {}
    /\ timers = [t \in 1..MaxTimers |-> 0]
    /\ useFallback = FALSE
    /\ inflight = [time |-> 0, price |-> 0]
    /\ mounted = FALSE
    /\ setupTimer = FALSE
    /\ wsTimer = FALSE
    /\ statusTimer = FALSE
    /\ unsubscribe = FALSE
    /\ isConnectedFlag = FALSE
    /\ failures = 0
    /\ gaveUp = FALSE
    /\ disconnected = FALSE
    /\ staleTimers = {}
    /\ lastDelays = <<>>
    /\ HubIdle
    /\ DataIdle

Next ==
    \/ EffectMount
    \/ Refetch
    \/ \E ok \in BOOLEAN : FetchTime(ok)
    \/ \E outcome \in {"live", "empty", "fail"} : FetchPrice(outcome)
    \/ SetupWebSocket
    \/ WsTimerFire
    \/ StatusTick
    \/ EffectCleanup
    \/ \E s \in 1..MaxSockets : SocketOpen(s)
    \/ \E s \in 1..MaxSockets : SocketFail(s)
    \/ \E s \in 1..MaxSockets, code \in {NORMAL_CLOSURE, GOING_AWAY} : SocketServerClose(s, code)
    \/ \E s \in 1..MaxSockets, code \in {NORMAL_CLOSURE, ABNORMAL_CLOSURE} : SocketCloseDone(s, code)
    \/ \E t \in 1..MaxTimers : TimerFire(t)

Spec == Init /\ [][Next]_vars

\* The bootstrap and the records: the hook is mounted, its first
\* fetchInitialData() still awaits getServerTime(), and the streaming side
\* is up (the coordinator subscribed, the socket open, the health check
\* armed), so that updates are delivered while fetches are in flight.
InitData ==
    /\ AuxIdle
    /\ ws = 1
    /\ reconnectTimer = 0
    /\ callbacks = <<handlePriceUpdate>>
    /\ isConnecting = FALSE
    /\ reconnectAttempts = 0
    /\ symbols = CRYPTO_SYMBOLS
    /\ sock = [s \in 1..MaxSockets |-> IF s = 1 THEN "OPEN" ELSE "NONE"]
    /\ aborted = {}
    /\ timers = [t \in 1..MaxTimers |-> 0]
    /\ useFallback = FALSE
    /\ inflight = [time |-> 0, price |-> 0]
    /\ mounted = TRUE
    /\ setupTimer = FALSE
    /\ wsTimer = FALSE
    /\ statusTimer = TRUE
    /\ unsubscribe = TRUE
    /\ isConnectedFlag = FALSE
    /\ failures = 0
    /\ gaveUp = FALSE
    /\ disconnected = FALSE
    /\ staleTimers = {}
    /\ lastDelays = <<>>
    /\ HubIdle
    /\ cryptoData = NoRecords
    /\ error = "null"
    /\ lastUpdate = 0
    /\ isLoading = TRUE
    /\ calls = [c \in 1..MaxCalls |-> IF c = 1 THEN "time" ELSE "none"]
    /\ newest = 1
    /\ newestDone = FALSE
    /\ staleApplied = FALSE
    /\ lastFetch = NoFetch
    /\ delivered = NoUpdate

NextData ==
    \/ FetchInitialData
    \/ \E c \in 1..MaxCalls, ok \in BOOLEAN : ServerTimeSettled(c, ok)
    \/ \E c \in 1..MaxCalls, resp \in Responses : PriceSettled(c, resp)
    \/ \E u \in PriceUpdates : HandlePriceUpdate(u)
    \/ \E id \in {"btc", "eth"} : ToggleFavorite(id)

SpecData == InitData /\ [][NextData]_vars

\* The candle generators: a generator is called, turns its loop and returns.
InitCandles ==
    /\ ws = 0
    /\ reconnectTimer = 0
    /\ callbacks = <<>>
    /\ isConnecting = FALSE
    /\ reconnectAttempts = 0
    /\ symbols = <<>>
    /\ sock = [s \in 1..MaxSockets |-> "NONE"]
    /\ aborted = {}
    /\ timers = [t \in 1..MaxTimers |-> 0]
    /\ useFallback = FALSE
    /\ inflight = [time |-> 0, price |-> 0]
    /\ mounted = FALSE
    /\ setupTimer = FALSE
    /\ wsTimer = FALSE
    /\ statusTimer = FALSE
    /\ unsubscribe = FALSE
    /\ isConnectedFlag = FALSE
    /\ failures = 0
    /\ gaveUp = FALSE
    /\ disconnected = FALSE
    /\ staleTimers = {}
    /\ lastDelays = <<>>
    /\ HubIdle
    /\ DataIdle
    /\ AuxIdle

NextCandles ==
    \/ \E call \in GenCalls : GenStart(call)
    \/ \E r1, r2, r3, r4, r5 \in Random : GenerateMockKlineData(r1, r2, r3, r4, r5)
    \/ \E r0, r1, r3, r4, r5 \in Random : GenerateFallbackData(r0, r1, r3, r4, r5)
    \/ \E r0, r1, r3, r4, r5 \in Random : GenerateMockCandles(r0, r1, r3, r4, r5)
    \/ GenReturn

SpecCandles == InitCandles /\ [][NextCandles]_vars

\* The calls charts and the quote feed make of BinanceService, one at a time.
NextChart ==
    \/ \E symbol \in ChartSymbols, i \in 1..Len(SUPPORTED_RESOLUTIONS) :
            GetBars(symbol, SUPPORTED_RESOLUTIONS[i])
    \/ \E symbol \in ChartSymbols : GetTicker24hr(symbol)
    \/ GetCurrentPrice
    \/ \E ok \in BOOLEAN : ChartSettled(ok)
    \/ ChartReturn

SpecChart == InitCandles /\ [][NextChart]_vars

\* BinanceDatafeed's realtime subscriptions.
NextFeed ==
    \/ \E uid \in FeedUids, symbol \in FeedSymbols : SubscribeBars(uid, symbol)
    \/ \E uid \in FeedUids : UnsubscribeBars(uid)
    \/ \E s \in 1..MaxKlines, hasK \in BOOLEAN : KlineMessage(s, hasK)
    \/ \E s \in 1..MaxKlines : KlineClosed(s)

SpecFeed == InitCandles /\ [][NextFeed]_vars

TypeOK ==
    /\ ws \in 0..MaxSockets
    /\ reconnectTimer \in 0..MaxTimers
    /\ reconnectAttempts \in 0..maxReconnectAttempts
    /\ isConnecting \in BOOLEAN
    /\ aborted \subseteq {s \in 1..MaxSockets : sock[s] = "CLOSING"}
    /\ staleTimers \subseteq PendingTimers
    /\ failures \in 0..MaxFailures

\* ------------------------------------------------------------- claims
NumIn(state) == Cardinality({s \in 1..MaxSockets : sock[s] = state})

\* C1: counting failures since the last open or disconnect(), the k-th
\* consecutive connection failure (k = 0..4) schedules exactly one reconnect
\* timer, with delay min(1000 * 2^k, 30000); a successful open resets the
\* attempt counter to 0.
C1_DelaySequence ==
    [][ /\ failures' = failures + 1 =>
             lastDelays' = IF failures < maxReconnectAttempts
                           THEN <<ReconnectDelay(failures)>> ELSE <<>>
        /\ NumIn("OPEN")' > NumIn("OPEN") => reconnectAttempts' = 0 ]_vars

\* C2: once the manager has given up (the attempt counter is at
\* maxReconnectAttempts and scheduleReconnect() has refused to schedule), no
\* step other than an open or a disconnect() creates a socket or schedules a
\* reconnect timer.
C2_FallbackTerminal ==
    [][ gaveUp /\ gaveUp' =>
            /\ NumIn("CONNECTING")' <= NumIn("CONNECTING")
            /\ lastDelays' = <<>> ]_vars

\* C3: a reconnect timer that was pending when disconnect() ran never
\* executes connect(): after it is gone the manager has no socket and is not
\* connecting, as long as the caller has not called connect().
C3_DisconnectCancelsTimers ==
    [][ disconnected' /\ Cardinality(staleTimers') < Cardinality(staleTimers) =>
            ws' = 0 /\ ~isConnecting' ]_vars

\* C4: at most one socket created by the service is CONNECTING or OPEN.
C4_SingleConnection == Cardinality(LiveSockets) <= 1

\* C5: after disconnect() and until the caller connects again, the events of
\* a socket that disconnect() closed schedule no reconnect and leave
\* reconnectAttempts at 0.
C5_NoReconnectAfterDisconnect ==
    [][ disconnected /\ NumIn("CLOSING")' < NumIn("CLOSING") =>
            reconnectAttempts' = 0 /\ lastDelays' = <<>> ]_vars

\* the connection is as it was when the socket opened
ConnAsOpened ==
    /\ ws = 1 /\ sock[1] = "OPEN"
    /\ ~isConnecting
    /\ reconnectAttempts = 0
    /\ reconnectTimer = 0 /\ PendingTimers = {}

\* C6: when callbacks throw during the fan-out of an update, every callback
\* that was registered at its start and has not been unsubscribed is still
\* invoked, and the connection state is untouched.
C6_ThrowIsolated ==
    (fanOver /\ threw # {}) =>
        /\ \A cb \in fanStart \ fanRemoved : invoked[cb] >= 1
        /\ ConnAsOpened

\* three subscribers, the second threw, the first and the third were invoked
C6_Witness ==
    /\ fanOver
    /\ callbacks = <<1, 2, 3>>
    /\ fanStart = {1, 2, 3}
    /\ threw = {2}
    /\ \A cb \in Callbacks : invoked[cb] = 1

\* C7: for one update no callback is invoked twice, and every callback
\* registered when the fan-out starts and not unsubscribed during it is
\* invoked exactly once, whatever subscribe() and unsubscribe calls the
\* callbacks make.
C7_ExactlyOnce ==
    /\ \A cb \in Callbacks : invoked[cb] <= 1
    /\ fanOver => \A cb \in fanStart \ fanRemoved : invoked[cb] = 1

Without(list, cb) == SelectSeq(list, LAMBDA x : x # cb)

\* C8: invoking the unsubscribe handle of cb leaves the registry without cb
\* and otherwise as it was (so it changes nothing when cb is already
\* removed), and a callback is invoked only while it is registered.
C8_UnsubscribeIdempotent ==
    [][ /\ \A cb \in Consumers : lastHandle' = cb => callbacks' = Without(callbacks, cb)
        /\ \A cb \in Callbacks : invoked'[cb] > invoked[cb] => cb \in Registered ]_vars

\* a handle has just been invoked for the second time, others are registered
C8_Witness ==
    /\ lastHandle # 0
    /\ handleAgain
    /\ Len(callbacks) >= 2

C10_BadFrameDropped ==
    frameClass \in {"invalid", "noshape", "lacks"} =>
        /\ updatesInFrame = 0
        /\ frameCalls = 0
        /\ fanIdx = 0
        /\ ConnAsOpened

\* a frame lacking a required field was handled while consumers were subscribed
C10_Witness ==
    /\ handling /\ work = <<>>
    /\ frameClass = "lacks"
    /\ Len(callbacks) >= 2
    /\ frameCalls = 0

\* a is b with some of its elements left out
RECURSIVE IsSubseq(_, _)
IsSubseq(a, b) ==
    IF a = <<>> THEN TRUE
    ELSE IF b = <<>> THEN FALSE
    ELSE IF Head(a) = Head(b) THEN IsSubseq(Tail(a), Tail(b))
    ELSE IsSubseq(a, Tail(b))

OfSymbol(us, sym) == SelectSeq(us, LAMBDA u : u.symbol = sym)

\* a sequence with each run of equal elements reduced to one
RECURSIVE Collapse(_)
Collapse(us) ==
    IF Len(us) < 2 THEN us
    ELSE IF us[1] = us[2] THEN Collapse(Tail(us))
    ELSE <<us[1]>> \o Collapse(Tail(us))

\* C11: the updates delivered to a callback for a symbol are, in their order
\* of delivery (an update delivered again at once counted one time), updates
\* of the frame being handled in the order in which the frame carries them,
\* and nothing of a frame remains to be delivered once its handler has
\* returned (the next frame is taken only then).
C11_DeliveredInOrder ==
    /\ \A cb \in Callbacks : \A sym \in {"btc", "eth"} :
           IsSubseq(Collapse(OfSymbol(got[cb], sym)), OfSymbol(recvd, sym))
    /\ ~handling => (work = <<>> /\ fanIdx = 0 /\ running = 0)

\* an array frame carried two different BTC events and a consumer has
\* received both
C11_Witness ==
    /\ handling /\ fanOver /\ work = <<>>
    /\ Len(OfSymbol(recvd, "btc")) = 2
    /\ recvd[1] # recvd[2]
    /\ \E cb \in Consumers : got[cb] = recvd

\* symbol lists getCurrentPrice can be called with
SymbolLists == UNION {[1..n -> {"BTC", "eth", "XRP", "BNB"}] : n \in 0..MaxTickers}

\* the result of getCurrentPrice on a 200 response has an entry, with the
\* ticker's values, for exactly the requested symbols the response carries
LiveResultExact ==
    \A syms \in SymbolLists, tl \in TickerLists :
        /\ DOMAIN liveResult(syms, tl) = foundIn(syms, Response("ok", 200, tl))
        /\ \A k \in DOMAIN liveResult(syms, tl) :
              /\ liveResult(syms, tl)[k].symbol = pairName(k)
              /\ liveResult(syms, tl)[k].current_price \in {420500, 421750}

\* C12: on a 200 response getCurrentPrice returns an entry for exactly the
\* requested symbols whose <SYMBOL>USDT ticker the response carries; when
\* there is one the coordinator's records are exactly those and connected
\* is true; when there is none the call still ends (the error is caught
\* and shown) with connected false.
C12_ExactlyFound ==
    /\ LiveResultExact
    /\ lastFetch.cause = "ok" =>
          /\ ~isLoading
          /\ IF lastFetch.found # {}
             THEN /\ DOMAIN cryptoData = lastFetch.found
                  /\ \A k \in DOMAIN cryptoData : cryptoData[k].price \in {420500, 421750}
                  /\ isConnectedFlag
             ELSE error = NO_DATA /\ ~isConnectedFlag

\* the response carried BTC and not ETH: one record
C12_Witness ==
    /\ lastFetch.cause = "ok"
    /\ lastFetch.found = {"BTC"}
    /\ DOMAIN cryptoData = {"BTC"}
    /\ isConnectedFlag

\* C13: when a request of the bootstrap fails with a network error the call
\* ends normally and the records are the fallback table's, one for every
\* requested symbol.
C13_FullySynthetic ==
    lastFetch.cause = "network" =>
        /\ ~isLoading
        /\ DOMAIN cryptoData = keysOf(CRYPTO_SYMBOLS)
        /\ \A k \in DOMAIN cryptoData :
              /\ cryptoData[k].symbol = k
              /\ cryptoData[k].price = FALLBACK_CRYPTO_DATA(k).current_price

\* a request of the bootstrap has failed and nine synthetic records stand
C13_Witness ==
    /\ lastFetch.cause = "network"
    /\ lastFetch.data = "synthetic"
    /\ Cardinality(DOMAIN cryptoData) = Len(CRYPTO_SYMBOLS)
    /\ cryptoData["DOGE"].price = 85

\* C14: when a bootstrap call has installed synthetic fallback data,
\* connected is false when the call completes.
C14_FallbackNotConnected == lastFetch.data = "synthetic" => ~isConnectedFlag

\* C16: handlePriceUpdate(update) replaces price and change24h of the
\* records whose symbol equals update.symbol whatever the case of the
\* letters, leaves every other record and every other field as it was,
\* takes a new lastUpdate and sets connected.
C16_UpdateApplied ==
    [][ delivered' # NoUpdate =>
          /\ DOMAIN cryptoData' = DOMAIN cryptoData
          /\ \A k \in DOMAIN cryptoData :
                IF toUpperCase(cryptoData[k].symbol) = toUpperCase(delivered'.symbol)
                THEN cryptoData'[k] = [cryptoData[k] EXCEPT !.price = delivered'.price,
                                                            !.change24h = delivered'.change24h]
                ELSE cryptoData'[k] = cryptoData[k]
          /\ lastUpdate' # lastUpdate
          /\ isConnectedFlag' ]_vars

\* an update for btc has changed the BTC record; the ETH record, whose
\* favourite flag had been cleared, is as it was
C16_Witness ==
    /\ delivered # NoUpdate /\ delivered.symbol = "btc"
    /\ {"BTC", "ETH"} \subseteq DOMAIN cryptoData
    /\ cryptoData["BTC"].price = delivered.price
    /\ cryptoData["BTC"].high24h = 430000
    /\ cryptoData["ETH"].price # delivered.price
    /\ ~cryptoData["ETH"].isFavorite

\* C17: a 429 response to the quote fetch is shown as the rate-limit error
\* and does not switch the service to fallback mode.
C17_RateLimitReported == lastFetch.cause = "429" => (error = RATE_LIMIT /\ ~useFallback)

\* C18: when bootstrap calls overlap, a call that was started before the
\* most recently started one does not change records, connected or error
\* after that one has completed.
C18_LastFetchWins == ~staleApplied

\* C15: in a run of the effect whose bootstrap has failed (the service is in
\* fallback mode) the coordinator has made no hub subscription and has no
\* connect timer armed, whenever the failure happens.
C15_NoStreamingAfterFailure ==
    (mounted /\ useFallback) => (~unsubscribe /\ ~wsTimer)

\* C19: after the effect's cleanup nothing the effect created remains: the
\* coordinator's callback is not registered, none of its timers and no
\* reconnect timer is pending, and no socket is connecting or open.
C19_StopReleasesAll ==
    ~mounted => /\ handlePriceUpdate \notin Registered
                /\ ~setupTimer /\ ~wsTimer /\ ~statusTimer
                /\ PendingTimers = {}
                /\ LiveSockets = {}

\* C20: a step of a bootstrap fetch (refetch() starting one, or one of its
\* requests ending, in success or in failure) leaves the streaming side as it
\* was: the manager's socket, flags, counter and timers, the hub's subscriber
\* set and the coordinator's own timers.
C20_RefetchLeavesStreaming ==
    [][((inflight' # inflight \/ calls' # calls \/ lastFetch' # NoFetch) /\ mounted' = mounted) =>
            UNCHANGED <<connVars, callbacks, setupTimer, wsTimer, statusTimer, unsubscribe>>]_vars

\* a refetch() made while the first fetch awaits its tickers has failed, and
\* the socket is still open with the coordinator subscribed and its health
\* check armed
C20_Witness ==
    /\ lastFetch.cause = "network" /\ lastFetch.data = "synthetic"
    /\ calls[1] = "price"
    /\ wsIsOpen(svc)
    /\ handlePriceUpdate \in Registered
    /\ statusTimer /\ ~setupTimer

\* C21: every candle a generator pushes has low <= min(open, close),
\* high >= max(open, close), prices above zero and a volume of at least
\* zero, and its time is later than the time of the candle pushed before it.
C21_CandlesWellFormed ==
    candle # NoCandle =>
        /\ candle.low <= Min(candle.open, candle.close)
        /\ candle.high >= Max(candle.open, candle.close)
        /\ candle.low > 0
        /\ candle.volume >= 0
        /\ prevTime # NoTime => TimeLess(prevTime, candle.time)

\* C22: fallback mode lasts until the caller retries: every fetchInitialData()
\* call, a refetch() made in fallback mode included, sends its requests to
\* the network (none completes from the fallback table without asking), and
\* a call whose requests succeed installs live records and leaves the
\* service out of fallback mode.
C22_RetryLeavesFallback ==
    /\ lastFetch.cause # "fallback"
    /\ (lastFetch.cause = "ok" /\ lastFetch.found # {}) =>
            (lastFetch.data = "live" /\ ~useFallback /\ error # DEMO_DATA)

\* C23: a call of getCurrentPrice or getTicker24hr calls itself at most once
\* and sends at most one request, whatever the symbol and the outcomes.
C23_RetryBounded ==
    (chartCall # NoChart /\ chartCall.fn \in {"getCurrentPrice", "getTicker24hr"}) =>
        (chartCall.depth <= 1 /\ chartCall.requests <= 1)

\* C24: formatInterval maps each of the eight interval keys to itself,
\* getIntervalMs gives its duration, and the request getBars sends for a
\* supported resolution carries the interval the resolution denotes (as do
\* the mock candles it falls back to).
C24_IntervalCarried ==
    /\ \A i \in 1..Len(INTERVAL_KEYS) :
          /\ formatInterval(INTERVAL_KEYS[i]) = INTERVAL_KEYS[i]
          /\ getIntervalMs(INTERVAL_KEYS[i]) = ResolutionMinutes[i] * 60000
    /\ \A i \in 1..Len(SUPPORTED_RESOLUTIONS) :
          minutesOfKey(formatInterval(convertResolution(SUPPORTED_RESOLUTIONS[i]))) = ResolutionMinutes[i]
    /\ (chartCall # NoChart /\ chartCall.fn = "getKlineData") =>
          /\ chartCall.sent # "" => minutesOfKey(chartCall.sent) = minutesOfKey(chartCall.interval)
          /\ chartCall.intervalMs # 0 => chartCall.intervalMs = minutesOfKey(chartCall.interval) * 60000

\* C27: no step of a candle fetch or of a single-ticker fetch changes the
\* mode of the service, which is what getCurrentPrice and the coordinator's
\* health check read.
C27_ChartLeavesMode ==
    [][(chartCall # NoChart /\ chartCall.fn \in {"getKlineData", "getTicker24hr"}
            /\ chartCall' # chartCall) => useFallback' = useFallback]_vars

\* C29: a realtime callback is invoked only while its subscriberUID is in
\* the subscriptions map (never after unsubscribeBars), and there are no more
\* open kline sockets than entries in the map.
C29_UnsubscribeStopsBars ==
    /\ barTo # 0 => barTo \in DOMAIN subscriptions
    /\ Cardinality(OpenKlines) <= Cardinality(DOMAIN subscriptions)

\* C25: at most one reconnect timer is pending, and it is the one whose
\* handle the reconnectTimer field holds.
C25_OneReconnectTimer ==
    /\ Cardinality(PendingTimers) <= 1
    /\ PendingTimers \subseteq {reconnectTimer}

\* C26: the close event of a socket that disconnect() closed, delivered when
\* the manager references a newer socket, leaves the manager referencing a
\* socket and leaves isConnecting as it was.
C26_StaleCloseIgnored ==
    [][ (NumIn("CLOSING")' < NumIn("CLOSING") /\ ws # 0 /\ sock[ws] \in {"CONNECTING", "OPEN"}) =>
            (ws' # 0 /\ isConnecting' = isConnecting) ]_vars

\* C28: a step that completes a bootstrap call or delivers a price update
\* keeps the isFavorite flag of every record that is still present, and any
\* other step that changes the records (toggleFavorite) flips the flag of
\* exactly one record and changes nothing else.
C28_FavouriteKept ==
    [][ IF lastFetch' # NoFetch \/ delivered' # NoUpdate
        THEN \A k \in DOMAIN cryptoData \cap DOMAIN cryptoData' :
                cryptoData'[k].isFavorite = cryptoData[k].isFavorite
        ELSE cryptoData' # cryptoData =>
                /\ DOMAIN cryptoData' = DOMAIN cryptoData
                /\ \E k \in DOMAIN cryptoData :
                      /\ cryptoData'[k] = [cryptoData[k] EXCEPT !.isFavorite = ~@]
                      /\ \A j \in DOMAIN cryptoData \ {k} : cryptoData'[j] = cryptoData[j]
      ]_vars

\* C30: the registry holds a callback at most once however often it was subscribed: it is
\* invoked at most once per published update, exactly once when the fan-out of the update
\* has finished, and the handle invoked last has left its callback unregistered, whether
\* or not other handles of that callback are still held.
C30_OneRegistration ==
    /\ \A cb \in Callbacks : Cardinality({i \in 1..Len(callbacks) : callbacks[i] = cb}) <= 1
    /\ \A cb \in Callbacks : invoked[cb] <= 1
    /\ fanOver => \A cb \in fanStart : invoked[cb] = 1
    /\ lastHandle # 0 => lastHandle \notin Registered

\* a consumer subscribed twice, both handles still held, was invoked once for an update
C30_Witness ==
    \E cb \in Consumers :
        /\ handlesOut[cb] = 2
        /\ cb \in Registered
        /\ fanOver
        /\ invoked[cb] = 1

====
